---- MODULE Spec2Model ----
(***************************************************************************)
(* Model of the ICMP probe engine of icmp-test (main.go): the scheduler of *)
(* main (semaphore, wait group, position-indexed result collection) and    *)
(* the reply correlation loop of runICMPTest.                              *)
(***************************************************************************)
EXTENDS Integers, Sequences, FiniteSets, TLC

(* ------------------------------ bounds -------------------------------- *)

\* number of configured tests in the scheduler specification
MaxTests == 2

\* largest payload size createICMPMessage is applied to on its own
MaxPayload == 73

(* ------------------------- program constants -------------------------- *)

\* var pid = os.Getpid() & 0xffff : one value per process
pid == 4660

\* an identifier that another process on the host would use
foreignID == 4661

defaultParallelism == 1

defaultPayloadSize == 32

defaultTOS == 0

\* defaultTimeout = "1s", in microseconds
defaultTimeout == 1000000

\* 10*time.Second, in microseconds
maxTimeout == 10000000

maxPayloadSize == 65507

ICMPTypeEchoReply == 0

ICMPTypeDestinationUnreachable == 3

ICMPTypeEcho == 8

ICMPTypeTimestamp == 13

ICMPTypeTimestampReply == 14

\* the value returned with an error by parseICMPRequestType / getICMPResponseType
invalidICMPType == 99

(* ---------------------- addresses and type labels --------------------- *)

\* config.General.SourceIPAddress
SourceIPAddress == "192.0.2.1"

\* net.ParseIP: the IP for a literal, "" (nil) for a host name
ParseIP(dest) ==
    IF dest \in {"127.0.0.1", "127.0.0.2", "192.0.2.1", "8.8.8.8"} THEN dest ELSE ""

\* net.IP.IsLoopback
IsLoopback(ip) == ip \in {"127.0.0.1", "127.0.0.2"}

\* net.ResolveIPAddr("ip4", dest) when it succeeds: a literal is its own
\* address, the host name "localhost" resolves to 127.0.0.1
ResolveIPAddr(dest) ==
    IF dest = "localhost" THEN "127.0.0.1" ELSE dest

\* ipv4.ICMPType.String
ICMPTypeString(t) ==
    CASE t = ICMPTypeEchoReply -> "echo reply"
      [] t = ICMPTypeDestinationUnreachable -> "destination unreachable"
      [] t = ICMPTypeEcho -> "echo"
      [] t = ICMPTypeTimestamp -> "timestamp"
      [] t = ICMPTypeTimestampReply -> "timestamp reply"
      [] OTHER -> "<nil>"

\* iana.ProtocolICMP
ProtocolICMP == 1

\* ipv4.ICMPType.Protocol: the protocol number of ICMPv4, for every type
ICMPTypeProtocol(t) == ProtocolICMP

\* icmpTypeToString of the earlier main.go; fmt.Sprintf("type %d", n) is the
\* prefix followed by the decimal digits of n
icmpTypeToString(t) ==
    CASE t = ICMPTypeEcho -> "echo request"
      [] t = ICMPTypeEchoReply -> "echo reply"
      [] t = ICMPTypeTimestamp -> "timestamp"
      [] t = ICMPTypeTimestampReply -> "timestamp reply"
      [] OTHER -> "type " \o ToString(ICMPTypeProtocol(t))

parseICMPRequestTypeLenient(reqType) ==
    CASE reqType = "timestamp" -> <<ICMPTypeTimestamp, TRUE>>
      [] OTHER -> <<ICMPTypeEcho, TRUE>>

\* parseICMPRequestType: <<type, ok>>
parseICMPRequestType(reqType) ==
    CASE reqType = "echo" -> <<ICMPTypeEcho, TRUE>>
      [] reqType = "timestamp" -> <<ICMPTypeTimestamp, TRUE>>
      [] OTHER -> <<invalidICMPType, FALSE>>

getICMPResponseTypeSwapped(test) ==
    CASE ICMPTypeString(test.RequestType) = "echo" -> <<ICMPTypeEchoReply, TRUE>>
      [] ICMPTypeString(test.RequestType) = "timestamp" ->
           IF ParseIP(test.Destination) # "" /\ IsLoopback(ParseIP(test.Destination))
           THEN <<ICMPTypeTimestampReply, TRUE>>
           ELSE <<ICMPTypeTimestamp, TRUE>>
      [] OTHER -> <<invalidICMPType, FALSE>>

\* getICMPResponseType: <<type, ok>>
getICMPResponseType(test) ==
    CASE ICMPTypeString(test.RequestType) = "echo" -> <<ICMPTypeEchoReply, TRUE>>
      [] ICMPTypeString(test.RequestType) = "timestamp" ->
           IF ParseIP(test.Destination) # "" /\ IsLoopback(ParseIP(test.Destination))
           THEN <<ICMPTypeTimestamp, TRUE>>
           ELSE <<ICMPTypeTimestampReply, TRUE>>
      [] OTHER -> <<invalidICMPType, FALSE>>

(* ----------------------------- datagrams ------------------------------ *)

\* A datagram read from the raw socket: its length class, the ICMP type
\* byte and the first four body bytes (identifier, sequence) when present.
\*   hdr  : the datagram has at least the 4 header bytes
\*   body : the body has at least 4 bytes
Datagram(hdr, typ, body, id, seq) ==
    [hdr |-> hdr, typ |-> typ, body |-> body, id |-> id, seq |-> seq]

NoDatagram == Datagram(FALSE, -1, FALSE, -1, -1)

\* fewer than 4 bytes: not an ICMP message
Garbage == Datagram(FALSE, 0, FALSE, 0, 0)

\* icmp.ParseMessage: [ok, Type, Body] with Body one of
\* "Echo", "RawBody", "DstUnreach" (a typed body without identifier/sequence)
ParseMessage(d) ==
    IF ~d.hdr THEN [ok |-> FALSE, Type |-> 0, Body |-> "", ID |-> 0, Seq |-> 0, Len |-> 0]
    ELSE IF d.typ \in {ICMPTypeEcho, ICMPTypeEchoReply}
    THEN IF ~d.body
         THEN [ok |-> FALSE, Type |-> d.typ, Body |-> "", ID |-> 0, Seq |-> 0, Len |-> 0]
         ELSE [ok |-> TRUE, Type |-> d.typ, Body |-> "Echo",
               ID |-> d.id, Seq |-> d.seq, Len |-> 4]
    ELSE IF d.typ = ICMPTypeDestinationUnreachable
    THEN IF ~d.body
         THEN [ok |-> FALSE, Type |-> d.typ, Body |-> "", ID |-> 0, Seq |-> 0, Len |-> 0]
         ELSE [ok |-> TRUE, Type |-> d.typ, Body |-> "DstUnreach",
               ID |-> 0, Seq |-> 0, Len |-> 4]
    ELSE [ok |-> TRUE, Type |-> d.typ, Body |-> "RawBody",
          ID |-> IF d.body THEN d.id ELSE 0,
          Seq |-> IF d.body THEN d.seq ELSE 0,
          Len |-> IF d.body THEN 4 ELSE 0]

RawBodyLittleEndian(typ, data) ==
    [ok |-> TRUE, Type |-> typ, Body |-> "RawBody",
     ID |-> IF Len(data) >= 4 THEN data[2] * 256 + data[1] ELSE 0,
     Seq |-> IF Len(data) >= 4 THEN data[4] * 256 + data[3] ELSE 0,
     Len |-> Len(data)]

\* a parsed message with an *icmp.RawBody of the bytes data: replyID and
\* replySeq are int(Data[0])<<8 | int(Data[1]) and int(Data[2])<<8 | int(Data[3]),
\* read only when len(Data) >= 4
RawBody(typ, data) ==
    [ok |-> TRUE, Type |-> typ, Body |-> "RawBody",
     ID |-> IF Len(data) >= 4 THEN data[1] * 256 + data[2] ELSE 0,
     Seq |-> IF Len(data) >= 4 THEN data[3] * 256 + data[4] ELSE 0,
     Len |-> Len(data)]

matchedIDOnly(m, test) ==
    CASE m.Body = "Echo" -> m.ID = test.ID
      [] m.Body = "icmpTimestamp" -> m.ID = test.ID
      [] m.Body = "RawBody" -> m.Len >= 4 /\ m.ID = test.ID
      [] OTHER -> FALSE

matchedSeqOnly(m, test) ==
    CASE m.Body = "Echo" -> m.Seq = test.Seq
      [] m.Body = "icmpTimestamp" -> m.Seq = test.Seq
      [] m.Body = "RawBody" -> m.Len >= 4 /\ m.Seq = test.Seq
      [] OTHER -> FALSE

\* the type switch of runICMPTest that sets `matched`
matched(m, test) ==
    CASE m.Body = "Echo" -> m.ID = test.ID /\ m.Seq = test.Seq
      [] m.Body = "icmpTimestamp" -> m.ID = test.ID /\ m.Seq = test.Seq
      [] m.Body = "RawBody" -> m.Len >= 4 /\ m.ID = test.ID /\ m.Seq = test.Seq
      [] OTHER -> FALSE


(* ----------------------------- messages ------------------------------ *)

\* the Go conversion byte(x) of an integer
byte(x) == x % 256

\* x >> n on an integer
shr(x, n) == x \div (2 ^ n)

\* an icmpTimestamp value
icmpTimestamp(id, seq, originate, receive, transmit) ==
    [ID |-> id, Seq |-> seq, OriginateTime |-> originate, ReceiveTime |-> receive,
     TransmitTime |-> transmit]

\* (*icmpTimestamp).Len
icmpTimestampLen(t) == 16

icmpTimestampMarshalSwapped(t) ==
    <<byte(t.ID % 256), byte(shr(t.ID, 8)), byte(t.Seq % 256), byte(shr(t.Seq, 8)),
      byte(shr(t.OriginateTime, 24)), byte(shr(t.OriginateTime, 16)),
      byte(shr(t.OriginateTime, 8)), byte(t.OriginateTime),
      byte(shr(t.ReceiveTime, 24)), byte(shr(t.ReceiveTime, 16)),
      byte(shr(t.ReceiveTime, 8)), byte(t.ReceiveTime),
      byte(shr(t.TransmitTime, 24)), byte(shr(t.TransmitTime, 16)),
      byte(shr(t.TransmitTime, 8)), byte(t.TransmitTime)>>

\* (*icmpTimestamp).Marshal: the 16 bytes b[0..15], here at positions 1..16
icmpTimestampMarshal(t) ==
    <<byte(shr(t.ID, 8)), byte(t.ID % 256), byte(shr(t.Seq, 8)), byte(t.Seq % 256),
      byte(shr(t.OriginateTime, 24)), byte(shr(t.OriginateTime, 16)),
      byte(shr(t.OriginateTime, 8)), byte(t.OriginateTime),
      byte(shr(t.ReceiveTime, 24)), byte(shr(t.ReceiveTime, 16)),
      byte(shr(t.ReceiveTime, 8)), byte(t.ReceiveTime),
      byte(shr(t.TransmitTime, 24)), byte(shr(t.TransmitTime, 16)),
      byte(shr(t.TransmitTime, 8)), byte(t.TransmitTime)>>

\* the bytes of the string "0123456789abcdefghijklmnopqrstuvwxyz"
pattern ==
    <<48, 49, 50, 51, 52, 53, 54, 55, 56, 57,
      97, 98, 99, 100, 101, 102, 103, 104, 105, 106, 107, 108, 109,
      110, 111, 112, 113, 114, 115, 116, 117, 118, 119, 120, 121, 122>>

createICMPMessageEchoOnly(reqType, id, seq, payloadSize) ==
    IF reqType = ICMPTypeEcho
    THEN [ok |-> TRUE, Type |-> reqType, Code |-> 0,
          Body |-> [Kind |-> "Echo", ID |-> id, Seq |-> seq,
                    Data |-> [k \in 1..payloadSize |-> pattern[((k - 1) % Len(pattern)) + 1]]]]
    ELSE [ok |-> FALSE, Type |-> reqType, Code |-> 0, Body |-> [Kind |-> ""]]

createICMPMessageShifted(reqType, id, seq, payloadSize) ==
    IF reqType = ICMPTypeEcho
    THEN [ok |-> TRUE, Type |-> reqType, Code |-> 0,
          Body |-> [Kind |-> "Echo", ID |-> id, Seq |-> seq,
                    Data |-> [k \in 1..payloadSize |-> pattern[(k % Len(pattern)) + 1]]]]
    ELSE IF reqType = ICMPTypeTimestamp
    THEN [ok |-> TRUE, Type |-> reqType, Code |-> 0,
          Body |-> [Kind |-> "icmpTimestamp"] @@ icmpTimestamp(id, seq, 0, 0, 0)]
    ELSE [ok |-> FALSE, Type |-> reqType, Code |-> 0, Body |-> [Kind |-> ""]]

\* createICMPMessage: data[i] = pattern[i % len(pattern)] for the 0-based i,
\* which is position k = i + 1 here
createICMPMessage(reqType, id, seq, payloadSize) ==
    IF reqType = ICMPTypeEcho
    THEN [ok |-> TRUE, Type |-> reqType, Code |-> 0,
          Body |-> [Kind |-> "Echo", ID |-> id, Seq |-> seq,
                    Data |-> [k \in 1..payloadSize |-> pattern[((k - 1) % Len(pattern)) + 1]]]]
    ELSE IF reqType = ICMPTypeTimestamp
    THEN [ok |-> TRUE, Type |-> reqType, Code |-> 0,
          Body |-> [Kind |-> "icmpTimestamp"] @@ icmpTimestamp(id, seq, 0, 0, 0)]
    ELSE [ok |-> FALSE, Type |-> reqType, Code |-> 0, Body |-> [Kind |-> ""]]

\* (*icmp.Echo).Marshal: identifier and sequence as 16-bit big-endian
\* words, then the data
echoMarshal(body) ==
    <<byte(shr(body.ID % 65536, 8)), byte(body.ID % 65536),
      byte(shr(body.Seq % 65536, 8)), byte(body.Seq % 65536)>> \o body.Data

RECURSIVE sumWords(_, _, _)
\* the loop of the Internet checksum, s += b[i+1]<<8 | b[i] for the even
\* 0-based i below the coverage, over the words lo..hi-1 (word w is at
\* i = 2w); the sum is split in halves to bound the depth of evaluation
sumWords(b, lo, hi) ==
    IF lo >= hi THEN 0
    ELSE IF hi = lo + 1 THEN b[2 * lo + 2] * 256 + b[2 * lo + 1]
    ELSE LET mid == (lo + hi) \div 2
         IN  sumWords(b, lo, mid) + sumWords(b, mid, hi)

\* the checksum of package icmp: the folded one's-complement sum, inverted
checksum(b) ==
    LET csumcv == Len(b) - 1
        s0 == sumWords(b, 0, (csumcv + 1) \div 2)
                + (IF csumcv % 2 = 0 THEN b[csumcv + 1] ELSE 0)
        s1 == shr(s0, 16) + (s0 % 65536)
        s2 == s1 + shr(s1, 16)
    IN  65535 - (s2 % 65536)

\* msg.Marshal(nil) for an IPv4 message: type, code, checksum, body; the
\* checksum is stored low byte first, as the library does
messageMarshal(msg) ==
    LET body == IF msg.Body.Kind = "Echo" THEN echoMarshal(msg.Body)
                ELSE icmpTimestampMarshal(msg.Body)
        b == <<msg.Type, msg.Code, 0, 0>> \o body
        s == checksum(b)
    IN  <<msg.Type, msg.Code, byte(s), byte(shr(s, 8))>> \o body

\* resp := make([]byte, 1500)
respSize == 1500

\* pconn.ReadFrom(resp): the bytes of the datagram that fit in resp
readFrom(wire) ==
    IF Len(wire) <= respSize THEN wire ELSE SubSeq(wire, 1, respSize)

\* icmp.ParseMessage(1, resp[:n]) on bytes: an Echo body for echo and echo
\* reply (4 body bytes at least), a raw body for the types this model
\* sends or receives otherwise
parseMessageBytes(b) ==
    LET none == [ok |-> FALSE, Type |-> 0, Body |-> "", ID |-> 0, Seq |-> 0, Len |-> 0,
                 Data |-> <<>>]
        body == SubSeq(b, 5, Len(b))
    IN  IF Len(b) < 4 THEN none
        ELSE IF b[1] \in {ICMPTypeEcho, ICMPTypeEchoReply}
        THEN IF Len(body) < 4 THEN [none EXCEPT !.Type = b[1]]
             ELSE [ok |-> TRUE, Type |-> b[1], Body |-> "Echo",
                   ID |-> body[1] * 256 + body[2], Seq |-> body[3] * 256 + body[4],
                   Len |-> Len(body), Data |-> SubSeq(body, 5, Len(body))]
        ELSE RawBody(b[1], body) @@ [Data |-> body]

(* -------------------------- configuration ----------------------------- *)

\* testInput.Timeout (*string): absent, unparseable, or a duration in microseconds
TimeoutInput(present, parses, us) == [present |-> present, parses |-> parses, us |-> us]

\* testInput.PayloadSize (*int)
PayloadInput(present, val) == [present |-> present, val |-> val]

\* type testInput
testInput(name, dest, req, exp, timeout, payload) ==
    [Name |-> name, Destination |-> dest, RequestType |-> req,
     ExpectedResult |-> exp, Timeout |-> timeout, PayloadSize |-> payload]

\* type Test, before the goroutine has built it
NoTest ==
    [Name |-> 0, Destination |-> "", ID |-> 0, Seq |-> 0, RequestType |-> 0,
     Timeout |-> 0, ExpectedResult |-> "", PayloadSize |-> 0]

\* type TestResult (zero value); Duration is "zero" or "elapsed"
ZeroResult ==
    [Name |-> 0, Destination |-> "", RequestType |-> "", ExpectedResult |-> "",
     ActualResult |-> "", Duration |-> "zero", Status |-> "", Details |-> ""]

\* buildFailedTestResult
buildFailedTestResult(ti, details) ==
    [Name |-> ti.Name, Destination |-> ti.Destination, RequestType |-> ti.RequestType,
     ExpectedResult |-> ti.ExpectedResult, ActualResult |-> "N/A", Duration |-> "zero",
     Status |-> "FAILED", Details |-> details]

\* the closure `fail` of runICMPTest
fail(res, details) == [res EXCEPT !.Status = "FAILED", !.Details = details]

(* ----------------------------- loadConfig ----------------------------- *)

\* an optional field of the YAML input: a nil pointer, or a value
Absent == [present |-> FALSE, val |-> 0]

Given(v) == [present |-> TRUE, val |-> v]

\* general.tos (*string): absent, or a string that is or is not a number in
\* the syntax of base 0 (decimal, or hex with the prefix 0x), and its value
TOSInput(present, parses, form, val) ==
    [present |-> present, parses |-> parses, form |-> form, val |-> val]

loadParallelismAsGiven(p) == IF p.present THEN p.val ELSE defaultParallelism

\* cfg.General.Parallelism
loadParallelism(p) ==
    IF ~p.present \/ p.val <= 0 THEN defaultParallelism ELSE p.val

\* strconv.ParseInt(s, 0, 8): <<value, ok>>; the value of a well-formed
\* string must fit a signed integer of 8 bits
ParseInt8(t) ==
    IF t.parses /\ t.val >= -128 /\ t.val <= 127 THEN <<t.val, TRUE>> ELSE <<0, FALSE>>

\* cfg.General.TOS: <<value, ok>>
loadTOS(t) ==
    IF ~t.present THEN <<defaultTOS, TRUE>>
    ELSE LET tosValue == ParseInt8(t)
         IN  IF ~tosValue[2] \/ tosValue[1] < 0 \/ tosValue[1] > 255
             THEN <<0, FALSE>>
             ELSE tosValue

\* loadConfig on a parsed YAML input (the interface and the source address
\* are taken from the host and are not part of this value)
loadConfig(input) ==
    LET bad(err) == [ok |-> FALSE, err |-> err,
                     General |-> [Output |-> "", Parallelism |-> 0, TOS |-> 0,
                                  SetDFBit |-> FALSE, ResultFilter |-> <<>>]]
        tos == loadTOS(input.TOS)
    IN  IF input.Output.present /\ input.Output.val \notin {"text", "json"}
        THEN bad("invalid output value")
        ELSE IF ~tos[2] THEN bad("invalid TOS value")
        ELSE IF input.NumTests = 0 THEN bad("no test scenarios found")
        ELSE [ok |-> TRUE, err |-> "",
              General |-> [Output |-> IF input.Output.present THEN input.Output.val
                                      ELSE "text",
                           Parallelism |-> loadParallelism(input.Parallelism),
                           TOS |-> tos[1],
                           SetDFBit |-> IF input.SetDFBit.present THEN input.SetDFBit.val
                                        ELSE FALSE,
                           ResultFilter |-> IF input.ResultFilter.present
                                            THEN input.ResultFilter.val ELSE <<>>]]

(* ------------------------------- state -------------------------------- *)

VARIABLES
    tests,        \* config.Tests
    traffic,      \* the datagrams that reach the host during the run
    general,      \* config.General: Parallelism, SetDFBit, ResultFilter
    launched,     \* number of iterations of the launch loop of main completed
    sem,          \* number of permits held in the channel sem
    wg,           \* counter of the sync.WaitGroup
    pc,           \* position of the goroutine of each test
    test,         \* the Test built by each goroutine
    conn,         \* the raw socket of each probe: "none", "open", "closed"
    sent,         \* number of requests written by each probe
    result,       \* the local `result` of each runICMPTest call
    results,      \* the result collection of main
    lastRead,     \* the datagram returned by the most recent ReadFrom, and its reader
    mainpc,       \* position of main: "launch", "joined", "checked", "printed"
    allPassed,    \* the flag of main
    exited,       \* process exit status, -1 while the process runs
    fatal,        \* the log.Fatalf call that ended the process, and its probe
    call,         \* a function applied on its own: its name and argument
    ret,          \* the value that call returned, once it has
    output,       \* the results main has printed (filteredResults)
    df,           \* the DF option of each probe's socket: "unset", "set", "failed"
    deadline      \* number of read deadlines set on each probe's socket

vars == <<tests, traffic, general, launched, sem, wg, pc, test, conn, sent, result,
          results, lastRead, mainpc, allPassed, exited, fatal, call, ret, output, df, deadline>>

N == Len(tests)

Idx == 1..N

running == exited = -1

(* ------------------------------ traffic ------------------------------- *)

\* the requests of the run's own probes looped back, and the replies to them
OwnDatagrams(n) ==
    {Datagram(TRUE, t, TRUE, pid, seq) :
        t \in {ICMPTypeEchoReply, ICMPTypeEcho}, seq \in 1..n}

\* every datagram of the model: echo and timestamp messages carrying the
\* identifier of this or of another process, messages too short to parse,
\* an ICMP error, and a raw body shorter than identifier and sequence
AllDatagrams(n) ==
    {Datagram(TRUE, t, TRUE, id, seq) :
        t \in {ICMPTypeEchoReply, ICMPTypeEcho, ICMPTypeTimestamp, ICMPTypeTimestampReply},
        id \in {pid, foreignID}, seq \in 1..(n + 1)}
    \cup {Garbage,
          Datagram(TRUE, ICMPTypeDestinationUnreachable, TRUE, 0, 0),
          Datagram(TRUE, ICMPTypeTimestampReply, FALSE, 0, 0),
          Datagram(TRUE, ICMPTypeEchoReply, FALSE, 0, 0)}

(* ------------------------ network interfaces ------------------------- *)

\* an address of an interface: its IP and whether ip.To4() is not nil
Addr(ip, v4) == [ip |-> ip, v4 |-> v4]

\* a net.Interface with the addresses iface.Addrs() returns
Interface(name, addrs) == [Name |-> name, Addrs |-> addrs]

\* the branch of determineNetworkInterfaceAndIPAddress for a source IP
\* address without an interface name, on the list net.Interfaces()
\* returns: the body of the loop over the interfaces returns or calls
\* log.Fatalf in its first iteration; with an empty list the function falls
\* through to its last log.Fatalf
determineNetworkInterfaceAndIPAddress(ifaces, sourceIPAddressString) ==
    LET sourceIP == ParseIP(sourceIPAddressString)
        fatalf(msg) == [ok |-> FALSE, msg |-> msg, Interface |-> "", IP |-> ""]
    IN  IF sourceIP = "" THEN fatalf("Invalid source IP address")
        ELSE IF Len(ifaces) = 0
        THEN fatalf("Failed to determine network interface and source IP address")
        ELSE LET iface == ifaces[1]
             IN  IF \E k \in 1..Len(iface.Addrs) :
                        iface.Addrs[k].v4 /\ iface.Addrs[k].ip = sourceIP
                 THEN [ok |-> TRUE, msg |-> "", Interface |-> iface.Name, IP |-> sourceIP]
                 ELSE fatalf("No network interface found with IP address")

(* --------------------- the goroutine body of main --------------------- *)

validateTestNegativePayload(ti, i) ==
    LET us == IF ti.Timeout.present THEN ti.Timeout.us ELSE defaultTimeout
        parses == ~ti.Timeout.present \/ ti.Timeout.parses
        rt == parseICMPRequestType(ti.RequestType)
        payloadSize == IF ti.PayloadSize.present THEN ti.PayloadSize.val
                       ELSE defaultPayloadSize
        bad(details) == [ok |-> FALSE, res |-> buildFailedTestResult(ti, details),
                         test |-> NoTest]
    IN  IF ti.ExpectedResult \notin {"response", "timeout"}
        THEN bad("invalid expected_result")
        ELSE IF ~parses THEN bad("invalid timeout: parse error")
        ELSE IF us <= 0 \/ us > maxTimeout
        THEN bad("invalid timeout: must be between 1ms and 10s")
        ELSE IF ~rt[2] THEN bad("unsupported request type")
        ELSE IF ti.PayloadSize.present /\ payloadSize > maxPayloadSize
        THEN bad("invalid payload_size")
        ELSE [ok |-> TRUE, res |-> ZeroResult,
              test |-> [Name |-> ti.Name, Destination |-> ti.Destination,
                        ID |-> pid, Seq |-> i, RequestType |-> rt[1],
                        Timeout |-> us, ExpectedResult |-> ti.ExpectedResult,
                        PayloadSize |-> payloadSize]]

validateTestAnyExpected(ti, i) ==
    LET us == IF ti.Timeout.present THEN ti.Timeout.us ELSE defaultTimeout
        parses == ~ti.Timeout.present \/ ti.Timeout.parses
        rt == parseICMPRequestType(ti.RequestType)
        payloadSize == IF ti.PayloadSize.present THEN ti.PayloadSize.val
                       ELSE defaultPayloadSize
        bad(details) == [ok |-> FALSE, res |-> buildFailedTestResult(ti, details),
                         test |-> NoTest]
    IN  IF ~parses THEN bad("invalid timeout: parse error")
        ELSE IF us <= 0 \/ us > maxTimeout
        THEN bad("invalid timeout: must be between 1ms and 10s")
        ELSE IF ~rt[2] THEN bad("unsupported request type")
        ELSE IF ti.PayloadSize.present /\ (payloadSize < 0 \/ payloadSize > maxPayloadSize)
        THEN bad("invalid payload_size")
        ELSE [ok |-> TRUE, res |-> ZeroResult,
              test |-> [Name |-> ti.Name, Destination |-> ti.Destination,
                        ID |-> pid, Seq |-> i, RequestType |-> rt[1],
                        Timeout |-> us, ExpectedResult |-> ti.ExpectedResult,
                        PayloadSize |-> payloadSize]]

\* the validation of one testInput in the goroutine launched for index i
\* (1-based here, so Seq = i stands for the source's i + 1)
validateTest(ti, i) ==
    LET us == IF ti.Timeout.present THEN ti.Timeout.us ELSE defaultTimeout
        parses == ~ti.Timeout.present \/ ti.Timeout.parses
        rt == parseICMPRequestType(ti.RequestType)
        payloadSize == IF ti.PayloadSize.present THEN ti.PayloadSize.val
                       ELSE defaultPayloadSize
        bad(details) == [ok |-> FALSE, res |-> buildFailedTestResult(ti, details),
                         test |-> NoTest]
    IN  IF ti.ExpectedResult \notin {"response", "timeout"}
        THEN bad("invalid expected_result")
        ELSE IF ~parses THEN bad("invalid timeout: parse error")
        ELSE IF us <= 0 \/ us > maxTimeout
        THEN bad("invalid timeout: must be between 1ms and 10s")
        ELSE IF ~rt[2] THEN bad("unsupported request type")
        ELSE IF ti.PayloadSize.present /\ (payloadSize < 0 \/ payloadSize > maxPayloadSize)
        THEN bad("invalid payload_size")
        ELSE [ok |-> TRUE, res |-> ZeroResult,
              test |-> [Name |-> ti.Name, Destination |-> ti.Destination,
                        ID |-> pid, Seq |-> i, RequestType |-> rt[1],
                        Timeout |-> us, ExpectedResult |-> ti.ExpectedResult,
                        PayloadSize |-> payloadSize]]

\* the initial `result` of runICMPTest
newResult(t) ==
    [Name |-> t.Name, Destination |-> t.Destination,
     RequestType |-> ICMPTypeString(t.RequestType),
     ExpectedResult |-> t.ExpectedResult,
     ActualResult |-> "", Duration |-> "zero", Status |-> "", Details |-> ""]

\* createICMPMessage fails for any type but echo and timestamp
createICMPMessageOk(reqType) == reqType \in {ICMPTypeEcho, ICMPTypeTimestamp}

\* isSelf in the receive loop
isSelf(t) ==
    LET ip == ParseIP(t.Destination)
    IN  ip # "" /\ (IsLoopback(ip) \/ ip = SourceIPAddress)

onTimeoutInverted(t, res) ==
    LET r1 == [res EXCEPT !.Duration = "elapsed", !.ActualResult = "timeout"]
    IN  IF t.ExpectedResult = "timeout"
        THEN fail(r1, "expected response, but timed out")
        ELSE [r1 EXCEPT !.Status = "PASSED", !.Details = "expected timeout occurred"]

\* the deadline branch of the receive loop
onTimeout(t, res) ==
    LET r1 == [res EXCEPT !.Duration = "elapsed", !.ActualResult = "timeout"]
    IN  IF t.ExpectedResult # "timeout"
        THEN fail(r1, "expected response, but timed out")
        ELSE [r1 EXCEPT !.Status = "PASSED", !.Details = "expected timeout occurred"]

onReadErrorLabelled(t, res) ==
    fail([res EXCEPT !.Duration = "elapsed", !.ActualResult = "timeout"], "ReadFrom error")

onReadErrorAsTimeout(t, res) ==
    LET r1 == [res EXCEPT !.Duration = "elapsed", !.ActualResult = "timeout"]
    IN  IF t.ExpectedResult # "timeout"
        THEN fail(r1, "ReadFrom error")
        ELSE [r1 EXCEPT !.Status = "PASSED", !.Details = "expected timeout occurred"]

\* the branch of the receive loop for a read error that is not a timeout
onReadError(t, res) ==
    fail([res EXCEPT !.Duration = "elapsed"], "ReadFrom error")

onDatagramParseErrorFails(t, res, d) ==
    LET m == ParseMessage(d)
        r1 == [res EXCEPT !.Duration = "elapsed",
                          !.ActualResult = ICMPTypeString(m.Type)]
        exp == getICMPResponseType(t)
    IN  IF ~m.ok THEN [res |-> fail(res, "ParseMessage error"), ret |-> TRUE]
        ELSE IF ~matched(m, t) THEN [res |-> res, ret |-> FALSE]
        ELSE IF t.ExpectedResult = "timeout"
        THEN [res |-> fail(r1, "received response, but expected timeout"), ret |-> TRUE]
        ELSE IF ~exp[2] THEN [res |-> r1, ret |-> FALSE]
        ELSE IF m.Type # exp[1]
        THEN IF isSelf(t) /\ m.Type \in {ICMPTypeEcho, ICMPTypeTimestamp}
             THEN [res |-> r1, ret |-> FALSE]
             ELSE [res |-> fail(r1, "received unexpected ICMP type"), ret |-> TRUE]
        ELSE [res |-> [r1 EXCEPT !.Status = "PASSED",
                                 !.Details = "received expected response"],
              ret |-> TRUE]

onDatagramAnyType(t, res, d) ==
    LET m == ParseMessage(d)
        r1 == [res EXCEPT !.Duration = "elapsed",
                          !.ActualResult = ICMPTypeString(m.Type)]
    IN  IF ~m.ok THEN [res |-> res, ret |-> FALSE]
        ELSE IF ~matched(m, t) THEN [res |-> res, ret |-> FALSE]
        ELSE IF t.ExpectedResult = "timeout"
        THEN [res |-> fail(r1, "received response, but expected timeout"), ret |-> TRUE]
        ELSE [res |-> [r1 EXCEPT !.Status = "PASSED",
                                 !.Details = "received expected response"],
              ret |-> TRUE]

onDatagramSelfNoiseFirst(t, res, d) ==
    LET m == ParseMessage(d)
        r1 == [res EXCEPT !.Duration = "elapsed",
                          !.ActualResult = ICMPTypeString(m.Type)]
        exp == getICMPResponseType(t)
    IN  IF ~m.ok THEN [res |-> res, ret |-> FALSE]
        ELSE IF ~matched(m, t) THEN [res |-> res, ret |-> FALSE]
        ELSE IF isSelf(t) /\ m.Type \in {ICMPTypeEcho, ICMPTypeTimestamp}
                /\ (~exp[2] \/ m.Type # exp[1])
        THEN [res |-> r1, ret |-> FALSE]
        ELSE IF t.ExpectedResult = "timeout"
        THEN [res |-> fail(r1, "received response, but expected timeout"), ret |-> TRUE]
        ELSE IF ~exp[2] THEN [res |-> r1, ret |-> FALSE]
        ELSE IF m.Type # exp[1]
        THEN [res |-> fail(r1, "received unexpected ICMP type"), ret |-> TRUE]
        ELSE [res |-> [r1 EXCEPT !.Status = "PASSED",
                                 !.Details = "received expected response"],
              ret |-> TRUE]

\* one iteration of the receive loop on a datagram: the new `result` and
\* whether runICMPTest returns (ret) or continues the loop
onDatagram(t, res, d) ==
    LET m == ParseMessage(d)
        r1 == [res EXCEPT !.Duration = "elapsed",
                          !.ActualResult = ICMPTypeString(m.Type)]
        exp == getICMPResponseType(t)
    IN  IF ~m.ok THEN [res |-> res, ret |-> FALSE]
        ELSE IF ~matched(m, t) THEN [res |-> res, ret |-> FALSE]
        ELSE IF t.ExpectedResult = "timeout"
        THEN [res |-> fail(r1, "received response, but expected timeout"), ret |-> TRUE]
        ELSE IF ~exp[2] THEN [res |-> r1, ret |-> FALSE]
        ELSE IF m.Type # exp[1]
        THEN IF isSelf(t) /\ m.Type \in {ICMPTypeEcho, ICMPTypeTimestamp}
             THEN [res |-> r1, ret |-> FALSE]
             ELSE [res |-> fail(r1, "received unexpected ICMP type"), ret |-> TRUE]
        ELSE [res |-> [r1 EXCEPT !.Status = "PASSED",
                                 !.Details = "received expected response"],
              ret |-> TRUE]


\* no function is applied on its own
NoCall == [fn |-> "", arg |-> <<>>]

NoReturn == [done |-> FALSE, val |-> <<>>]

(* ------------------------------ actions ------------------------------- *)

semHasRoomUnbounded == TRUE

\* `sem <- struct{}{}` proceeds only while the channel holds fewer than
\* Parallelism permits
semHasRoom == sem < general.Parallelism

resultSlotByCompletion(i) == Cardinality({j \in Idx : results[j] # ZeroResult}) + 1

\* the index of `results[i] = ...` in the goroutine launched for index i
resultSlot(i) == i

LaunchBeforePermit(i) ==
    /\ running /\ mainpc = "launch"
    /\ i = launched + 1 /\ i \in Idx
    /\ launched' = i
    /\ wg' = wg + 1
    /\ sem' = sem + 1
    /\ pc' = [pc EXCEPT ![i] = "validate"]
    /\ UNCHANGED <<tests, traffic, general, test, conn, sent, result, results, lastRead,
                   mainpc, allPassed, exited, fatal, call, ret, output, df, deadline>>

\* one iteration of the launch loop: wg.Add(1); sem <- struct{}{}; go func(i, test)
Launch(i) ==
    /\ running /\ mainpc = "launch"
    /\ i = launched + 1 /\ i \in Idx
    /\ semHasRoom
    /\ launched' = i
    /\ wg' = wg + 1
    /\ sem' = sem + 1
    /\ pc' = [pc EXCEPT ![i] = "validate"]
    /\ UNCHANGED <<tests, traffic, general, test, conn, sent, result, results, lastRead,
                   mainpc, allPassed, exited, fatal, call, ret, output, df, deadline>>

ValidateReleasingPermit(i) ==
    /\ running /\ i \in Idx /\ pc[i] = "validate"
    /\ sem' = sem - 1
    /\ LET v == validateTest(tests[i], i)
       IN  IF v.ok
           THEN /\ test' = [test EXCEPT ![i] = v.test]
                /\ result' = [result EXCEPT ![i] = newResult(v.test)]
                /\ pc' = [pc EXCEPT ![i] = "open"]
                /\ UNCHANGED results
           ELSE /\ results' = [results EXCEPT ![resultSlot(i)] = v.res]
                /\ pc' = [pc EXCEPT ![i] = "done"]
                /\ UNCHANGED <<test, result>>
    /\ UNCHANGED <<tests, traffic, general, launched, wg, conn, sent, lastRead,
                   mainpc, allPassed, exited, fatal, call, ret, output, df, deadline>>

\* the validation at the head of the goroutine; on success the call of
\* runICMPTest starts with its initial `result`
Validate(i) ==
    /\ running /\ i \in Idx /\ pc[i] = "validate"
    /\ LET v == validateTest(tests[i], i)
       IN  IF v.ok
           THEN /\ test' = [test EXCEPT ![i] = v.test]
                /\ result' = [result EXCEPT ![i] = newResult(v.test)]
                /\ pc' = [pc EXCEPT ![i] = "open"]
                /\ UNCHANGED results
           ELSE /\ results' = [results EXCEPT ![resultSlot(i)] = v.res]
                /\ pc' = [pc EXCEPT ![i] = "done"]
                /\ UNCHANGED <<test, result>>
    /\ UNCHANGED <<tests, traffic, general, launched, sem, wg, conn, sent, lastRead,
                   mainpc, allPassed, exited, fatal, call, ret, output, df, deadline>>

OpenSessionDFRequired(i) ==
    /\ running /\ i \in Idx /\ pc[i] = "open"
    /\ \E dfOk \in BOOLEAN,
          outcome \in {"ok", "ListenIP failed", "SetTOS failed", "SetControlMessage failed"} :
         /\ (~general.SetDFBit => dfOk)
         /\ conn' = [conn EXCEPT ![i] = IF outcome = "ListenIP failed" THEN @ ELSE "open"]
         /\ df' = [df EXCEPT ![i] = IF outcome = "ListenIP failed" \/ ~general.SetDFBit
                                    THEN @
                                    ELSE IF dfOk THEN "set" ELSE "failed"]
         /\ IF outcome = "ok" /\ dfOk
            THEN /\ pc' = [pc EXCEPT ![i] = "send"]
                 /\ UNCHANGED <<exited, fatal>>
            ELSE /\ exited' = 1
                 /\ fatal' = [probe |-> i, msg |-> IF dfOk THEN outcome ELSE "DF failed"]
                 /\ UNCHANGED pc
    /\ UNCHANGED <<tests, traffic, general, launched, sem, wg, test, sent, result,
                   results, lastRead, mainpc, allPassed, call, ret, output, deadline>>

\* the session setup of runICMPTest: net.ListenIP, the DF socket option (a
\* failure is only logged), SetTOS and SetControlMessage; log.Fatalf ends
\* the process with status 1 and runs no deferred call
OpenSession(i) ==
    /\ running /\ i \in Idx /\ pc[i] = "open"
    /\ \E dfOk \in BOOLEAN,
          outcome \in {"ok", "ListenIP failed", "SetTOS failed", "SetControlMessage failed"} :
         /\ (~general.SetDFBit => dfOk)
         /\ conn' = [conn EXCEPT ![i] = IF outcome = "ListenIP failed" THEN @ ELSE "open"]
         /\ df' = [df EXCEPT ![i] = IF outcome = "ListenIP failed" \/ ~general.SetDFBit
                                    THEN @
                                    ELSE IF dfOk THEN "set" ELSE "failed"]
         /\ IF outcome = "ok"
            THEN /\ pc' = [pc EXCEPT ![i] = "send"]
                 /\ UNCHANGED <<exited, fatal>>
            ELSE /\ exited' = 1
                 /\ fatal' = [probe |-> i, msg |-> outcome]
                 /\ UNCHANGED pc
    /\ UNCHANGED <<tests, traffic, general, launched, sem, wg, test, sent, result,
                   results, lastRead, mainpc, allPassed, call, ret, output, deadline>>

ReturnWithoutClose(i, res) ==
    /\ result' = [result EXCEPT ![i] = res]
    /\ pc' = [pc EXCEPT ![i] = "store"]
    /\ UNCHANGED conn

\* runICMPTest returns res: the deferred ipconn.Close runs, the value is
\* not yet assigned to results[i]
Return(i, res) ==
    /\ result' = [result EXCEPT ![i] = res]
    /\ conn' = [conn EXCEPT ![i] = "closed"]
    /\ pc' = [pc EXCEPT ![i] = "store"]

\* ResolveIPAddr, createICMPMessage, Marshal, WriteTo, SetReadDeadline
Send(i) ==
    /\ running /\ i \in Idx /\ pc[i] = "send"
    /\ \E outcome \in {"ResolveIPAddr error", "createICMPMessage error", "WriteTo error",
                       "sent fewer bytes", "SetReadDeadline error", "ok"} :
         /\ (outcome = "ResolveIPAddr error" => ParseIP(test[i].Destination) = "")
         /\ (outcome = "createICMPMessage error") = ~createICMPMessageOk(test[i].RequestType)
         /\ IF outcome \in {"ResolveIPAddr error", "createICMPMessage error"}
            THEN /\ Return(i, fail(result[i], outcome))
                 /\ UNCHANGED <<sent, deadline>>
            ELSE /\ sent' = [sent EXCEPT ![i] = @ + 1]
                 /\ IF outcome = "ok"
                    THEN /\ pc' = [pc EXCEPT ![i] = "recv"]
                         /\ deadline' = [deadline EXCEPT ![i] = @ + 1]
                         /\ UNCHANGED <<result, conn>>
                    ELSE /\ Return(i, fail(result[i], outcome))
                         /\ UNCHANGED deadline
    /\ UNCHANGED <<tests, traffic, general, launched, sem, wg, test, results, lastRead,
                   mainpc, allPassed, exited, fatal, call, ret, output, df>>

continueLoopResend(i, res) ==
    /\ result' = [result EXCEPT ![i] = res]
    /\ pc' = [pc EXCEPT ![i] = "send"]
    /\ UNCHANGED <<conn, deadline>>

continueLoopNewDeadline(i, res) ==
    /\ result' = [result EXCEPT ![i] = res]
    /\ deadline' = [deadline EXCEPT ![i] = IF @ < 2 THEN @ + 1 ELSE @]
    /\ UNCHANGED <<conn, pc>>

\* `continue` in the receive loop: the next iteration reads again, on the
\* deadline set before the loop
continueLoop(i, res) ==
    /\ result' = [result EXCEPT ![i] = res]
    /\ UNCHANGED <<conn, pc, deadline>>

\* the values returned by one ReadFrom of probe i: a datagram, or an
\* error that is the deadline ("timeout") or not ("error")
ReadOf(i, d, err) == [probe |-> i, d |-> d, err |-> err]

\* one iteration of the receive loop: the deadline expires, ReadFrom fails,
\* or a datagram is read
Receive(i) ==
    /\ running /\ i \in Idx /\ pc[i] = "recv"
    /\ \/ /\ Return(i, onTimeout(test[i], result[i]))
          /\ lastRead' = ReadOf(i, NoDatagram, "timeout")
          /\ UNCHANGED deadline
       \/ /\ Return(i, onReadError(test[i], result[i]))
          /\ lastRead' = ReadOf(i, NoDatagram, "error")
          /\ UNCHANGED deadline
       \/ \E d \in traffic :
            LET o == onDatagram(test[i], result[i], d)
            IN  /\ lastRead' = ReadOf(i, d, "")
                /\ IF o.ret
                   THEN Return(i, o.res) /\ UNCHANGED deadline
                   ELSE continueLoop(i, o.res)
    /\ UNCHANGED <<tests, traffic, general, launched, sem, wg, test, sent, results,
                   mainpc, allPassed, exited, fatal, call, ret, output, df>>

\* results[i] = runICMPTest(config, test)
Store(i) ==
    /\ running /\ i \in Idx /\ pc[i] = "store"
    /\ results' = [results EXCEPT ![resultSlot(i)] = result[i]]
    /\ pc' = [pc EXCEPT ![i] = "done"]
    /\ UNCHANGED <<tests, traffic, general, launched, sem, wg, test, conn, sent, result,
                   lastRead, mainpc, allPassed, exited, fatal, call, ret, output, df, deadline>>

\* the deferred function, first statement: wg.Done()
Done(i) ==
    /\ running /\ i \in Idx /\ pc[i] = "done"
    /\ wg' = wg - 1
    /\ pc' = [pc EXCEPT ![i] = "release"]
    /\ UNCHANGED <<tests, traffic, general, launched, sem, test, conn, sent, result, results,
                   lastRead, mainpc, allPassed, exited, fatal, call, ret, output, df, deadline>>

\* the deferred function, second statement: <-sem
Release(i) ==
    /\ running /\ i \in Idx /\ pc[i] = "release"
    /\ sem' = sem - 1
    /\ pc' = [pc EXCEPT ![i] = "end"]
    /\ UNCHANGED <<tests, traffic, general, launched, wg, test, conn, sent, result, results,
                   lastRead, mainpc, allPassed, exited, fatal, call, ret, output, df, deadline>>

\* wg.Wait() returns once every test is launched and the counter is zero
Join ==
    /\ running /\ mainpc = "launch" /\ launched = N /\ wg = 0
    /\ mainpc' = "joined"
    /\ UNCHANGED <<tests, traffic, general, launched, sem, wg, pc, test, conn, sent, result,
                   results, lastRead, allPassed, exited, fatal, call, ret, output, df, deadline>>

\* the filtering of main: with an empty ResultFilter every result is kept,
\* else the results whose Status is one of the filter's entries
filterResults(rs, filter) ==
    LET keep(r) == \E k \in 1..Len(filter) : r.Status = filter[k]
    IN  IF Len(filter) > 0 THEN SelectSeq(rs, keep) ELSE rs

checkedResultsFiltered == filterResults(results, general.ResultFilter)

\* the collection the allPassed loop ranges over
checkedResults == results

\* the loop that clears allPassed on the first result that is not PASSED
Check ==
    /\ running /\ mainpc = "joined"
    /\ allPassed' = \A j \in 1..Len(checkedResults) : checkedResults[j].Status = "PASSED"
    /\ mainpc' = "checked"
    /\ UNCHANGED <<tests, traffic, general, launched, sem, wg, pc, test, conn, sent, result,
                   results, lastRead, exited, fatal, call, ret, output, df, deadline>>

\* the filtering and the printing of the results
Output ==
    /\ running /\ mainpc = "checked"
    /\ output' = filterResults(results, general.ResultFilter)
    /\ mainpc' = "printed"
    /\ UNCHANGED <<tests, traffic, general, launched, sem, wg, pc, test, conn, sent, result,
                   results, lastRead, allPassed, exited, fatal, call, ret, df, deadline>>

\* the end of main: os.Exit(1) unless every test passed
Exit ==
    /\ running /\ mainpc = "printed"
    /\ exited' = IF allPassed THEN 0 ELSE 1
    /\ UNCHANGED <<tests, traffic, general, launched, sem, wg, pc, test, conn, sent, result,
                   results, lastRead, mainpc, allPassed, fatal, call, ret, output, df, deadline>>

Next ==
    \/ \E i \in Idx : Launch(i)
    \/ \E i \in Idx : Validate(i)
    \/ \E i \in Idx : OpenSession(i)
    \/ \E i \in Idx : Send(i)
    \/ \E i \in Idx : Receive(i)
    \/ \E i \in Idx : Store(i)
    \/ \E i \in Idx : Done(i)
    \/ \E i \in Idx : Release(i)
    \/ Join
    \/ Check
    \/ Output
    \/ Exit

(* ------------------------- initial states ----------------------------- *)

\* the state of main after loadConfig and the `var` block
InitState(ts, g, tr) ==
    /\ tests = ts
    /\ traffic = tr
    /\ general = g
    /\ launched = 0
    /\ sem = 0
    /\ wg = 0
    /\ pc = [i \in 1..Len(ts) |-> "idle"]
    /\ test = [i \in 1..Len(ts) |-> NoTest]
    /\ conn = [i \in 1..Len(ts) |-> "none"]
    /\ sent = [i \in 1..Len(ts) |-> 0]
    /\ result = [i \in 1..Len(ts) |-> ZeroResult]
    /\ results = [i \in 1..Len(ts) |-> ZeroResult]
    /\ lastRead = [probe |-> 0, d |-> NoDatagram, err |-> ""]
    /\ mainpc = "launch"
    /\ allPassed = TRUE
    /\ exited = -1
    /\ fatal = [probe |-> 0, msg |-> ""]
    /\ call = NoCall
    /\ ret = NoReturn
    /\ output = <<>>
    /\ df = [i \in 1..Len(ts) |-> "unset"]
    /\ deadline = [i \in 1..Len(ts) |-> 0]

\* the same state of main, with the function application c pending
InitCall(c) ==
    /\ tests = <<>>
    /\ traffic = {}
    /\ general = [Parallelism |-> defaultParallelism, SetDFBit |-> FALSE,
                  ResultFilter |-> <<>>]
    /\ launched = 0
    /\ sem = 0
    /\ wg = 0
    /\ pc = <<>>
    /\ test = <<>>
    /\ conn = <<>>
    /\ sent = <<>>
    /\ result = <<>>
    /\ results = <<>>
    /\ lastRead = [probe |-> 0, d |-> NoDatagram, err |-> ""]
    /\ mainpc = "launch"
    /\ allPassed = TRUE
    /\ exited = -1
    /\ fatal = [probe |-> 0, msg |-> ""]
    /\ call = c
    /\ ret = NoReturn
    /\ output = <<>>
    /\ df = <<>>
    /\ deadline = <<>>

NoTimeout == TimeoutInput(FALSE, FALSE, 0)

NoPayload == PayloadInput(FALSE, 0)

\* test entries of the scheduler specification
SchedInputs(name) ==
    {testInput(name, "127.0.0.1", "echo", "response", NoTimeout, NoPayload),
     testInput(name, "8.8.8.8", "echo", "response", NoTimeout, NoPayload),
     testInput(name, "8.8.8.8", "bogus", "response", NoTimeout, NoPayload)}

\* loadConfig: Parallelism is the configured value when positive, else 1
Init ==
    \E ts \in [1..MaxTests -> UNION {SchedInputs(n) : n \in 1..MaxTests}],
       par \in {Absent} \cup {Given(p) : p \in 0..MaxTests} :
        /\ \A i \in 1..MaxTests : ts[i].Name = i
        /\ InitState(ts, [Parallelism |-> loadParallelism(par), SetDFBit |-> FALSE,
                          ResultFilter |-> <<>>],
                     OwnDatagrams(MaxTests))

Spec == Init /\ [][Next]_vars

\* test entries of the single-probe specification
ProbeInputs ==
    {testInput(1, dest, req, exp, timeout, payload) :
        dest \in {"127.0.0.1", "192.0.2.1", "8.8.8.8", "localhost"},
        req \in {"echo", "timestamp", "bogus"},
        exp \in {"response", "timeout", "bogus"},
        timeout \in {NoTimeout, TimeoutInput(TRUE, FALSE, 0), TimeoutInput(TRUE, TRUE, 0),
                     TimeoutInput(TRUE, TRUE, 500), TimeoutInput(TRUE, TRUE, 1000),
                     TimeoutInput(TRUE, TRUE, maxTimeout),
                     TimeoutInput(TRUE, TRUE, maxTimeout + 1)},
        payload \in {NoPayload, PayloadInput(TRUE, -1), PayloadInput(TRUE, 0),
                     PayloadInput(TRUE, maxPayloadSize),
                     PayloadInput(TRUE, maxPayloadSize + 1)}}

InitProbe ==
    \E ti \in ProbeInputs, setDF \in BOOLEAN :
        InitState(<<ti>>, [Parallelism |-> defaultParallelism, SetDFBit |-> setDF,
                           ResultFilter |-> <<>>],
                  AllDatagrams(1))

SpecProbe == InitProbe /\ [][Next]_vars

\* the run of main with a result_filter: every test is an echo probe that
\* expects a response, run one at a time
InitReport ==
    \E filter \in {<<>>, <<"FAILED">>, <<"PASSED">>, <<"PASSED", "FAILED">>} :
        InitState([i \in 1..MaxTests |->
                      testInput(i, "8.8.8.8", "echo", "response", NoTimeout, NoPayload)],
                  [Parallelism |-> defaultParallelism, SetDFBit |-> FALSE,
                   ResultFilter |-> filter],
                  OwnDatagrams(MaxTests))

SpecReport == InitReport /\ [][Next]_vars

\* the Go scheduler runs every goroutine that can take a step, and a
\* ReadFrom with a read deadline returns at the deadline at the latest
Fairness ==
    /\ \A i \in 1..MaxTests :
         /\ WF_vars(Launch(i))
         /\ WF_vars(Validate(i))
         /\ WF_vars(OpenSession(i))
         /\ WF_vars(Send(i))
         /\ WF_vars(Receive(i) /\ pc'[i] = "store")
         /\ WF_vars(Store(i))
         /\ WF_vars(Done(i))
         /\ WF_vars(Release(i))
    /\ WF_vars(Join)
    /\ WF_vars(Check)
    /\ WF_vars(Output)
    /\ WF_vars(Exit)

SpecFair == Init /\ [][Next]_vars /\ Fairness

SpecProbeFair == InitProbe /\ [][Next]_vars /\ Fairness

(* ------------------- functions applied on their own ------------------- *)

\* the pending application returns val
Returns(val) ==
    /\ ret' = [done |-> TRUE, val |-> val]
    /\ UNCHANGED <<tests, traffic, general, launched, sem, wg, pc, test, conn, sent,
                   result, results, lastRead, mainpc, allPassed, exited, fatal, call, output, df, deadline>>

\* getICMPResponseType(test)
ApplyGetICMPResponseType ==
    /\ call.fn = "getICMPResponseType" /\ ~ret.done
    /\ Returns(getICMPResponseType(call.arg))

\* (*icmpTimestamp).Marshal and Len
ApplyIcmpTimestampMarshal ==
    /\ call.fn = "icmpTimestamp.Marshal" /\ ~ret.done
    /\ Returns([b |-> icmpTimestampMarshal(call.arg), len |-> icmpTimestampLen(call.arg)])

\* a timestamp body marshalled by the sender comes back as the first n
\* bytes of a reply's raw body and goes through the type switch of the
\* receive loop of the probe that sent it
ApplyMarshalThenMatch ==
    /\ call.fn = "Marshal;matched" /\ ~ret.done
    /\ LET t == icmpTimestamp(call.arg.ID, call.arg.Seq, 0, 0, 0)
           m == RawBody(ICMPTypeTimestampReply,
                        SubSeq(icmpTimestampMarshal(t), 1, call.arg.n))
       IN  Returns([m |-> m,
                    matched |-> matched(m, [NoTest EXCEPT !.ID = call.arg.ID,
                                                          !.Seq = call.arg.Seq])])

\* createICMPMessage(reqType, id, seq, payloadSize)
ApplyCreateICMPMessage ==
    /\ call.fn = "createICMPMessage" /\ ~ret.done
    /\ Returns(createICMPMessage(call.arg.reqType, call.arg.id, call.arg.seq,
                                 call.arg.payloadSize))

\* an echo request is built and marshalled as runICMPTest sends it, and
\* its bytes are read and parsed as the receive loop does
ApplyEchoRoundTrip ==
    /\ call.fn = "echo round trip" /\ ~ret.done
    /\ LET msg == createICMPMessage(ICMPTypeEcho, call.arg.id, call.arg.seq,
                                    call.arg.payloadSize)
           b == messageMarshal(msg)
       IN  Returns([msg |-> msg, n |-> Len(b), m |-> parseMessageBytes(readFrom(b))])

\* config, err := loadConfig(path): main keeps the configuration returned
ApplyLoadConfig ==
    /\ call.fn = "loadConfig" /\ ~ret.done
    /\ LET cfg == loadConfig(call.arg)
       IN  /\ ret' = [done |-> TRUE, val |-> cfg]
           /\ general' = IF cfg.ok
                         THEN [Parallelism |-> cfg.General.Parallelism,
                               SetDFBit |-> cfg.General.SetDFBit,
                               ResultFilter |-> cfg.General.ResultFilter]
                         ELSE general
    /\ UNCHANGED <<tests, traffic, launched, sem, wg, pc, test, conn, sent, result,
                   results, lastRead, mainpc, allPassed, exited, fatal, call, output, df, deadline>>

\* the goroutines launched for the 0-based indices i and j build their Test
\* (Seq: i + 1) and marshal their request as runICMPTest does; the reply to
\* the request of i, which carries the body bytes of that request, is read
\* and goes through the type switch of the receive loop of probe i
ApplyWireSequence ==
    /\ call.fn = "wire sequence" /\ ~ret.done
    /\ LET ti == testInput(1, "8.8.8.8", call.arg.req, "response", NoTimeout, NoPayload)
           probe(k) ==
               LET t == validateTest(ti, k + 1).test
                   b == messageMarshal(createICMPMessage(t.RequestType, t.ID, t.Seq,
                                                         t.PayloadSize))
               IN  [test |-> t, b |-> b, wireID |-> b[5] * 256 + b[6],
                    wireSeq |-> b[7] * 256 + b[8]]
           p == probe(call.arg.i)
           reply == <<getICMPResponseType(p.test)[1]>> \o SubSeq(p.b, 2, Len(p.b))
           m == parseMessageBytes(readFrom(reply))
       IN  Returns([Seq |-> p.test.Seq, wireID |-> p.wireID, wireSeq |-> p.wireSeq,
                    otherWireSeq |-> probe(call.arg.j).wireSeq,
                    m |-> m, matched |-> matched(m, p.test)])

\* determineNetworkInterfaceAndIPAddress(input) with only a source IP
\* address configured; log.Fatalf ends the process with status 1
ApplyDetermineNetworkInterfaceAndIPAddress ==
    /\ call.fn = "determineNetworkInterfaceAndIPAddress" /\ ~ret.done
    /\ LET r == determineNetworkInterfaceAndIPAddress(call.arg.ifaces, call.arg.source)
       IN  /\ ret' = [done |-> TRUE, val |-> r]
           /\ exited' = IF r.ok THEN exited ELSE 1
           /\ fatal' = IF r.ok THEN fatal ELSE [probe |-> 0, msg |-> r.msg]
    /\ UNCHANGED <<tests, traffic, general, launched, sem, wg, pc, test, conn, sent,
                   result, results, lastRead, mainpc, allPassed, call, output, df, deadline>>

\* icmpTypeToString(t)
ApplyIcmpTypeToString ==
    /\ call.fn = "icmpTypeToString" /\ ~ret.done
    /\ Returns(icmpTypeToString(call.arg))

NextCalls ==
    \/ ApplyGetICMPResponseType
    \/ ApplyIcmpTypeToString
    \/ ApplyDetermineNetworkInterfaceAndIPAddress
    \/ ApplyWireSequence
    \/ ApplyLoadConfig
    \/ ApplyEchoRoundTrip
    \/ ApplyIcmpTimestampMarshal
    \/ ApplyMarshalThenMatch
    \/ ApplyCreateICMPMessage

\* the Test values getICMPResponseType is applied to: every ICMP type up
\* to 18 and the invalid type, towards literal and named destinations
ResponseTypeCalls ==
    {[fn |-> "getICMPResponseType",
      arg |-> [NoTest EXCEPT !.RequestType = rt, !.Destination = dest]] :
        rt \in 0..18 \cup {invalidICMPType},
        dest \in {"127.0.0.1", "127.0.0.2", "192.0.2.1", "8.8.8.8", "localhost"}}

\* the icmpTimestamp values Marshal is applied to: identifiers and sequences
\* inside, at and beyond 16 bits, and 32-bit times
MarshalCalls ==
    {[fn |-> "icmpTimestamp.Marshal", arg |-> icmpTimestamp(id, seq, o, r, x)] :
        id \in {0, pid, 65535, 65536 + 258, -1},
        seq \in {0, 1, 258, 65535, 65537},
        o \in {0, 16909060, 2147483647},
        r \in {0, 84281096},
        x \in {0, 2147483647}}

\* identifiers and sequences over the 16-bit range, and the number of body
\* bytes the reply carries
MarshalThenMatchCalls ==
    {[fn |-> "Marshal;matched", arg |-> [ID |-> id, Seq |-> seq, n |-> n]] :
        id \in {0, 1, 255, 256, pid, 65280, 65535},
        seq \in {0, 1, 255, 256, 4660, 65280, 65535},
        n \in {0, 3, 4, 16}}

\* echo requests of every payload size up to MaxPayload, and requests of
\* the other types with the default payload size
CreateICMPMessageCalls ==
    {[fn |-> "createICMPMessage",
      arg |-> [reqType |-> ICMPTypeEcho, id |-> id, seq |-> seq, payloadSize |-> size]] :
        id \in {pid, 0}, seq \in {1, 2}, size \in 0..MaxPayload}
    \cup
    {[fn |-> "createICMPMessage",
      arg |-> [reqType |-> rt, id |-> id, seq |-> seq, payloadSize |-> defaultPayloadSize]] :
        rt \in {ICMPTypeTimestamp, ICMPTypeEchoReply, ICMPTypeTimestampReply,
                ICMPTypeDestinationUnreachable, invalidICMPType},
        id \in {pid, 0}, seq \in {1, 2}}

\* echo requests of the payload sizes up to MaxPayload, and around the
\* size of the receive buffer
EchoRoundTripCalls ==
    {[fn |-> "echo round trip", arg |-> [id |-> id, seq |-> seq, payloadSize |-> size]] :
        id \in {pid, 65535}, seq \in {1, 258},
        size \in 0..MaxPayload \cup {respSize - 9, respSize - 8, respSize - 7, respSize}}

\* YAML inputs of loadConfig
LoadConfigCalls ==
    {[fn |-> "loadConfig",
      arg |-> [Output |-> out, Parallelism |-> par, TOS |-> tos, SetDFBit |-> setDF,
               ResultFilter |-> Absent, NumTests |-> n]] :
        out \in {Absent, Given("json"), Given("xml")},
        par \in {Absent, Given(-1), Given(0), Given(1), Given(2), Given(8)},
        tos \in {TOSInput(FALSE, FALSE, "", 0),
                 TOSInput(TRUE, FALSE, "", 0)}
                \cup {TOSInput(TRUE, TRUE, form, v) :
                        form \in {"decimal", "hex"},
                        v \in {-1, 0, 1, 127, 128, 184, 255, 256}},
        setDF \in {Absent, Given(TRUE)},
        n \in {0, 1}}

\* pairs of distinct 0-based positions in the configured list, below and
\* beyond 2^16 tests, for both request types
WireSequenceCalls ==
    {[fn |-> "wire sequence", arg |-> [i |-> i, j |-> j, req |-> req]] :
        i \in {0, 1, 254, 255, 65534, 65535, 65536},
        j \in {0, 1, 255, 65534, 65535, 131071},
        req \in {"echo", "timestamp"}}
    \ {[fn |-> "wire sequence", arg |-> [i |-> i, j |-> i, req |-> req]] :
          i \in {0, 1, 255, 65534, 65535}, req \in {"echo", "timestamp"}}

\* the interfaces of a host: the loopback interface with an IPv6 and an
\* IPv4 address, and two others
HostInterfaces ==
    {Interface("lo", <<Addr("::1", FALSE), Addr("127.0.0.1", TRUE)>>),
     Interface("eth0", <<Addr("192.0.2.1", TRUE)>>),
     Interface("eth1", <<Addr("fe80::1", FALSE), Addr("8.8.8.8", TRUE)>>)}

\* interface lists of up to three distinct interfaces in any order, and a
\* source address that is owned by the first, by a later or by no
\* interface, or is not an IP address
InterfaceCalls ==
    {[fn |-> "determineNetworkInterfaceAndIPAddress",
      arg |-> [ifaces |-> ifaces, source |-> source]] :
        ifaces \in {l \in UNION {[1..n -> HostInterfaces] : n \in 0..3} :
                       \A a, b \in 1..Len(l) : a # b => l[a] # l[b]},
        source \in {"127.0.0.1", "127.0.0.2", "192.0.2.1", "8.8.8.8", "localhost"}}

\* the ICMP types of the assigned range, the invalid type and the largest
\* value of the type byte
IcmpTypeToStringCalls ==
    {[fn |-> "icmpTypeToString", arg |-> t] : t \in 0..43 \cup {invalidICMPType, 255}}

InitCalls ==
    \E c \in ResponseTypeCalls \cup MarshalCalls \cup MarshalThenMatchCalls
                \cup CreateICMPMessageCalls \cup EchoRoundTripCalls
                \cup LoadConfigCalls \cup WireSequenceCalls
                \cup InterfaceCalls \cup IcmpTypeToStringCalls :
        InitCall(c)

SpecCalls == InitCalls /\ [][NextCalls]_vars

(* ------------------------------- claims ------------------------------- *)

\* C1: once the run has joined, for every index i the entry results[i] is
\* the result of the i-th configured test: it carries that test's name and
\* destination, whatever the parallelism and the order of completion.
C1_ResultsFollowInputOrder ==
    mainpc \in {"joined", "checked", "printed"} =>
        \A i \in Idx : /\ results[i].Name = tests[i].Name
                       /\ results[i].Destination = tests[i].Destination

\* the run has joined with several units allowed at once, and the last
\* unit had ended while the first one still held its permit
C1_Witness ==
    /\ mainpc = "joined" /\ N >= 2 /\ general.Parallelism >= 2
    /\ pc[1] = "release" /\ pc[N] = "end"
    /\ \A i \in Idx : results[i].Name = i

\* C2: the number of units that have been launched and have not yet
\* released their permit never exceeds the configured parallelism.
C2_AtMostParallelismUnits ==
    Cardinality({i \in Idx : pc[i] \notin {"idle", "end"}}) <= general.Parallelism

\* every permit is held and the launcher still has a test to launch
C2_Witness ==
    /\ Cardinality({i \in Idx : pc[i] \notin {"idle", "end"}}) = general.Parallelism
    /\ mainpc = "launch" /\ launched < N /\ running

\* C3: a probe leaves the receive loop through the match branch only on a
\* datagram that carries the shared identifier and the probe's own sequence
\* (the position of the test, counted from 1): a reply to another probe
\* never decides it.
C3_OnlyOwnReplyDecides ==
    [][\A i \in Idx :
         (/\ pc[i] = "recv" /\ pc'[i] = "store"
          /\ result'[i].Details \in {"received response, but expected timeout",
                                     "received unexpected ICMP type",
                                     "received expected response"})
         => /\ lastRead'.probe = i
            /\ lastRead'.d.hdr /\ lastRead'.d.body
            /\ lastRead'.d.id = pid
            /\ lastRead'.d.seq = i]_vars

\* two probes wait at once, and one of them has just read and discarded
\* the echo reply to the other
C3_Witness ==
    \E i, j \in Idx :
        /\ i # j /\ pc[i] = "recv" /\ pc[j] = "recv"
        /\ lastRead = ReadOf(i, Datagram(TRUE, ICMPTypeEchoReply, TRUE, pid, j), "")


\* C4: in the receive loop, a decoded datagram whose identifier or sequence
\* differs from the probe's ID or Seq is discarded: the probe stays in the
\* loop and its result record is left as it was, also when the datagram's
\* ICMP type is the expected reply type.
C4_MismatchIsDiscarded ==
    [][\A i \in Idx :
         (/\ pc[i] = "recv" /\ lastRead'.probe = i
          /\ lastRead'.d.hdr /\ lastRead'.d.body
          /\ (lastRead'.d.id # test[i].ID \/ lastRead'.d.seq # test[i].Seq))
         => /\ pc'[i] = "recv"
            /\ result'[i] = result[i]]_vars

\* a waiting probe has just read a datagram of the expected reply type that
\* carries another identifier with the probe's sequence
C4_Witness ==
    \E i \in Idx :
        /\ pc[i] = "recv" /\ test[i].ExpectedResult = "response"
        /\ lastRead.probe = i /\ lastRead.d.hdr /\ lastRead.d.body
        /\ lastRead.d.typ = getICMPResponseType(test[i])[1]
        /\ lastRead.d.id # test[i].ID /\ lastRead.d.seq = test[i].Seq
        /\ result[i].Status = "" /\ result[i].ActualResult = ""

\* C5: for a probe that expects a timeout, the expiry of the deadline ends
\* it PASSED with the observed label "timeout", and a datagram carrying its
\* (ID, Seq) read before the deadline ends it FAILED.
C5_TimeoutExpected ==
    [][\A i \in Idx :
         (/\ pc[i] = "recv" /\ test[i].ExpectedResult = "timeout"
          /\ lastRead'.probe = i)
         => /\ lastRead'.err = "timeout"
               => /\ pc'[i] = "store"
                  /\ result'[i].Status = "PASSED"
                  /\ result'[i].ActualResult = "timeout"
            /\ (/\ lastRead'.d.hdr /\ lastRead'.d.body
                /\ lastRead'.d.id = test[i].ID /\ lastRead'.d.seq = test[i].Seq)
               => /\ pc'[i] = "store"
                  /\ result'[i].Status = "FAILED"]_vars

\* a probe that expects a timeout has returned PASSED on the deadline
C5_Witness ==
    \E i \in Idx :
        /\ pc[i] = "store" /\ test[i].ExpectedResult = "timeout"
        /\ lastRead = ReadOf(i, NoDatagram, "timeout")
        /\ result[i].Status = "PASSED" /\ result[i].ActualResult = "timeout"

\* C6: a probe that expects a response becomes PASSED exactly on reading a
\* datagram that carries its (ID, Seq) and has the expected reply type, and
\* the expiry of the deadline ends it FAILED with the observed label "timeout".
C6_ResponseExpected ==
    [][\A i \in Idx :
         LET good == /\ lastRead'.probe = i
                     /\ lastRead'.d.hdr /\ lastRead'.d.body
                     /\ lastRead'.d.id = test'[i].ID /\ lastRead'.d.seq = test'[i].Seq
                     /\ lastRead'.d.typ = getICMPResponseType(test'[i])[1]
         IN  tests[i].ExpectedResult = "response"
             => /\ (result[i].Status # "PASSED" /\ result'[i].Status = "PASSED")
                   => (pc[i] = "recv" /\ good)
                /\ (pc[i] = "recv" /\ good)
                   => (pc'[i] = "store" /\ result'[i].Status = "PASSED")
                /\ (pc[i] = "recv" /\ lastRead'.probe = i /\ lastRead'.err = "timeout")
                   => /\ pc'[i] = "store"
                      /\ result'[i].Status = "FAILED"
                      /\ result'[i].ActualResult = "timeout"]_vars

\* a probe that expects a response has returned PASSED on its reply
C6_Witness ==
    \E i \in Idx :
        /\ pc[i] = "store" /\ test[i].ExpectedResult = "response"
        /\ lastRead.probe = i /\ lastRead.d.id = pid /\ lastRead.d.seq = i
        /\ lastRead.d.typ = getICMPResponseType(test[i])[1]
        /\ result[i].Status = "PASSED"

\* C7: a probe that expects a response and reads a datagram carrying its
\* (ID, Seq) with a type other than the expected reply type keeps waiting
\* when the destination is its own host and the type is the probe's own
\* request type, and ends FAILED at once in every other case.
C7_SelfNoiseOnlyOwnRequestType ==
    [][\A i \in Idx :
         (/\ pc[i] = "recv" /\ test[i].ExpectedResult = "response"
          /\ lastRead'.probe = i
          /\ lastRead'.d.hdr /\ lastRead'.d.body
          /\ lastRead'.d.id = test[i].ID /\ lastRead'.d.seq = test[i].Seq
          /\ lastRead'.d.typ # getICMPResponseType(test[i])[1])
         => IF isSelf(test[i]) /\ lastRead'.d.typ = test[i].RequestType
            THEN pc'[i] = "recv"
            ELSE pc'[i] = "store" /\ result'[i].Status = "FAILED"]_vars


\* C8: getICMPResponseType returns echo reply for an echo request; for a
\* timestamp request it returns timestamp when the destination is a
\* loopback address (an IP literal in 127.0.0.0/8) and timestamp reply for
\* every other destination; for any other request type it returns the
\* invalid type 99 with an error.
C8_ResponseType ==
    (call.fn = "getICMPResponseType" /\ ret.done) =>
        LET t == call.arg
        IN  /\ t.RequestType = ICMPTypeEcho => ret.val = <<ICMPTypeEchoReply, TRUE>>
            /\ t.RequestType = ICMPTypeTimestamp =>
                 ret.val = IF t.Destination \in {"127.0.0.1", "127.0.0.2"}
                           THEN <<ICMPTypeTimestamp, TRUE>>
                           ELSE <<ICMPTypeTimestampReply, TRUE>>
            /\ t.RequestType \notin {ICMPTypeEcho, ICMPTypeTimestamp} =>
                 ret.val = <<99, FALSE>>

\* the function has returned timestamp for a timestamp request to 127.0.0.1
C8_Witness ==
    /\ call.fn = "getICMPResponseType" /\ ret.done
    /\ call.arg.RequestType = ICMPTypeTimestamp
    /\ call.arg.Destination = "127.0.0.1"
    /\ ret.val = <<ICMPTypeTimestamp, TRUE>>

\* C9: a probe writes at most one request: none before its send step,
\* exactly one once resolution and encoding have succeeded, and none after
\* the receive loop has started, however many datagrams it discards; a
\* probe that is receiving or has returned never goes back to sending.
C9_AtMostOneRequest ==
    /\ [](\A i \in Idx :
            /\ sent[i] <= 1
            /\ pc[i] \in {"idle", "validate", "open", "send"} => sent[i] = 0
            /\ pc[i] = "recv" => sent[i] = 1
            /\ (/\ pc[i] \in {"store", "done", "release", "end"}
                /\ test[i] # NoTest
                /\ result[i].Details \notin {"ResolveIPAddr error",
                                             "createICMPMessage error"})
               => sent[i] = 1)
    /\ [][\A i \in Idx :
            pc[i] \in {"recv", "store", "done", "release", "end"}
            => (sent'[i] = sent[i] /\ pc'[i] # "send")]_vars

\* a probe that sent its one request has read and discarded a datagram and
\* still waits
C9_Witness ==
    \E i \in Idx :
        /\ pc[i] = "recv" /\ sent[i] = 1
        /\ lastRead.probe = i /\ lastRead.d.hdr
        /\ result[i].Status = ""

\* C10: a failure of the session setup of a probe (opening the raw socket,
\* applying ToS or the control-message flag, resolving the destination)
\* leaves the process running, and the probe ends with a FAILED result.
C10_SetupFailureIsLocal ==
    \A i \in Idx :
        /\ fatal.probe = i => running
        /\ (fatal.probe = i \/ result[i].Details = "ResolveIPAddr error")
           => (pc[i] \in {"done", "release", "end"} => results[i].Status = "FAILED")


\* C11: under fair scheduling, with every receive returning at its deadline
\* at the latest, the run reaches the join with a PASSED or FAILED result
\* for every configured test, whatever error occurs in any probe.
C11_EveryProbeGetsAResult ==
    <>(/\ mainpc # "launch"
       /\ \A i \in 1..MaxTests : results[i].Status \in {"PASSED", "FAILED"})


\* C12: a probe that called WriteTo and returned without reading ended
\* FAILED with the send error, the short write or the deadline error in its
\* details; a probe with such details never read; and a ReadFrom error that
\* is not the deadline ends the probe FAILED with "ReadFrom error", also
\* when a timeout was expected.
C12_IOErrorsFailTheProbe ==
    /\ [](\A i \in Idx :
            LET sendErrors == {"WriteTo error", "sent fewer bytes", "SetReadDeadline error"}
            IN  /\ (pc[i] \notin {"idle", "validate", "open", "send", "recv"}
                      /\ sent[i] > 0 /\ lastRead.probe # i)
                     => /\ result[i].Status = "FAILED"
                        /\ result[i].Details \in sendErrors
                /\ result[i].Details \in sendErrors
                     => /\ lastRead.probe # i
                        /\ pc[i] # "recv"
                        /\ result[i].Status = "FAILED")
    /\ [][\A i \in Idx :
            (pc[i] = "recv" /\ lastRead' = ReadOf(i, NoDatagram, "error"))
                => /\ pc'[i] = "store"
                   /\ result'[i].Status = "FAILED"
                   /\ result'[i].Details = "ReadFrom error"]_vars

\* a probe expecting a timeout hit a read error that is not the deadline
C12_Witness ==
    \E i \in Idx :
        /\ test[i] # NoTest /\ test[i].ExpectedResult = "timeout"
        /\ pc[i] = "store"
        /\ lastRead = ReadOf(i, NoDatagram, "error")
        /\ result[i].Status = "FAILED"


C14_UnsupportedTypeAlwaysNamed ==
    \A i \in Idx :
        tests[i].RequestType \notin {"echo", "timestamp"}
          => /\ conn[i] = "none"
             /\ pc[i] \in {"done", "release", "end"}
                  => /\ results[i].Status = "FAILED"
                     /\ results[i].Details = "unsupported request type"

\* C14, amended: such a test is FAILED without a socket whatever its other
\* fields are; the details name the unsupported request type when the
\* expected_result and the timeout are valid, and name the invalid
\* expected_result or timeout, which are checked first, when they are not.
C14_UnsupportedTypeNamedAfterEarlierChecks ==
    \A i \in Idx :
        LET ti == tests[i]
            okExpected == ti.ExpectedResult \in {"response", "timeout"}
            okTimeout == ~ti.Timeout.present
                           \/ (ti.Timeout.parses /\ ti.Timeout.us > 0
                                 /\ ti.Timeout.us <= 10 * 1000000)
        IN  ti.RequestType \notin {"echo", "timestamp"}
              => /\ conn[i] = "none" /\ sent[i] = 0
                 /\ pc[i] \in {"idle", "validate", "done", "release", "end"}
                 /\ pc[i] \in {"done", "release", "end"}
                      => /\ results[i].Status = "FAILED"
                         /\ (okExpected /\ okTimeout)
                              => results[i].Details = "unsupported request type"
                         /\ ~okExpected
                              => results[i].Details = "invalid expected_result"
                         /\ (okExpected /\ ~okTimeout)
                              => results[i].Details
                                   \in {"invalid timeout: parse error",
                                        "invalid timeout: must be between 1ms and 10s"}

\* an unsupported request type with an invalid payload size as well: the
\* details name the request type
C14_Witness ==
    \E i \in Idx :
        /\ tests[i].RequestType = "bogus"
        /\ tests[i].ExpectedResult = "timeout"
        /\ tests[i].PayloadSize = PayloadInput(TRUE, -1)
        /\ pc[i] = "end"
        /\ results[i].Details = "unsupported request type"


\* C15: results[i] is written exactly once, by the unit launched for index
\* i only, on every path on which that unit ends (validation failure, setup
\* failure, pass, fail), and the entries are read only after the join, when
\* every unit has written its entry.
C15_EachEntryWrittenOnceByItsUnit ==
    /\ [](\A i \in Idx :
            (fatal.probe = i \/ pc[i] \in {"done", "release", "end"})
               => results[i].Status \in {"PASSED", "FAILED"})
    /\ [](mainpc # "launch" => \A i \in Idx : results[i].Status \in {"PASSED", "FAILED"})
    /\ [][\A i \in Idx :
            results'[i] # results[i]
               => /\ results[i] = ZeroResult
                  /\ pc[i] \in {"validate", "store"} /\ pc'[i] = "done"
                  /\ \A j \in Idx \ {i} : results'[j] = results[j]]_vars
    /\ [][allPassed' # allPassed => mainpc = "joined"]_vars


\* C16: the session of probe i is opened once, by unit i in its setup; it
\* is written to and read from only by unit i while it is open; and it is
\* closed when runICMPTest has returned, before results[i] is stored, so
\* that no stored result belongs to a probe whose session is still open.
C16_SessionOwnedAndClosed ==
    /\ [](\A i \in Idx :
            /\ pc[i] \in {"store", "done", "release", "end"} => conn[i] # "open"
            /\ conn[i] = "open" => pc[i] \in {"open", "send", "recv"}
            /\ results[i] # ZeroResult => conn[i] # "open")
    /\ [][\A i \in Idx :
            /\ (conn'[i] = "open" /\ conn[i] # "open")
                 => (conn[i] = "none" /\ pc[i] = "open")
            /\ sent'[i] # sent[i] => (conn[i] = "open" /\ pc[i] = "send")
            /\ (lastRead' # lastRead /\ lastRead'.probe = i)
                 => (conn[i] = "open" /\ pc[i] = "recv")]_vars

\* one probe has returned and closed its session while another probe's
\* session is open
C16_Witness ==
    \E i, j \in Idx :
        /\ i # j
        /\ conn[i] = "closed" /\ pc[i] = "store" /\ result[i].Status = "PASSED"
        /\ conn[j] = "open" /\ pc[j] = "recv"


\* C17: once main has computed its flag, allPassed is true exactly when
\* every entry of the result collection is PASSED, whatever the result
\* filter keeps for the output, and main exits with status 0 when the flag
\* is true and with a non-zero status when it is false.
C17_FlagOverAllResults ==
    /\ mainpc \in {"checked", "printed"}
         => (allPassed <=> \A i \in 1..Len(results) : results[i].Status = "PASSED")
    /\ (mainpc = "printed" /\ exited # -1)
         => ((exited # 0) <=> ~allPassed)

\* main exited non-zero although every result kept by the filter is PASSED
C17_Witness ==
    /\ mainpc = "printed" /\ exited = 1
    /\ general.ResultFilter = <<"PASSED">>
    /\ Len(output) > 0 /\ Len(output) < Len(results)
    /\ \A k \in 1..Len(output) : output[k].Status = "PASSED"


\* C18: Marshal returns 16 bytes, each in 0..255, that are the big-endian
\* encoding of the identifier modulo 2^16 (bytes 0-1), the sequence modulo
\* 2^16 (bytes 2-3), and the originate, receive and transmit times (bytes
\* 4-7, 8-11, 12-15); Len returns 16.
C18_MarshalLayout ==
    (call.fn = "icmpTimestamp.Marshal" /\ ret.done) =>
        LET t == call.arg
            b == ret.val.b
            be16(k) == b[k] * 256 + b[k + 1]
            be32(k) == ((b[k] * 256 + b[k + 1]) * 256 + b[k + 2]) * 256 + b[k + 3]
        IN  /\ Len(b) = 16
            /\ ret.val.len = 16
            /\ \A k \in 1..16 : b[k] \in 0..255
            /\ be16(1) = t.ID % 65536
            /\ be16(3) = t.Seq % 65536
            /\ be32(5) = t.OriginateTime
            /\ be32(9) = t.ReceiveTime
            /\ be32(13) = t.TransmitTime

\* an identifier and a sequence beyond 16 bits with three different times
C18_Witness ==
    /\ call.fn = "icmpTimestamp.Marshal" /\ ret.done
    /\ call.arg = icmpTimestamp(65536 + 258, 65537, 16909060, 84281096, 2147483647)
    /\ ret.val.b = <<1, 2, 0, 1, 1, 2, 3, 4, 5, 6, 7, 8, 127, 255, 255, 255>>

\* C19: the identifier and the sequence read from bytes 0-1 and 2-3 of a
\* raw body that holds at least the first 4 bytes Marshal produced for
\* (identifier, sequence) in 0..65535 are that identifier and sequence, and
\* the body matches the probe that sent them; a body of fewer than 4 bytes
\* does not match.
C19_MarshalThenExtract ==
    (call.fn = "Marshal;matched" /\ ret.done) =>
        /\ call.arg.n >= 4
             => /\ ret.val.m.ID = call.arg.ID
                /\ ret.val.m.Seq = call.arg.Seq
                /\ ret.val.matched
        /\ call.arg.n < 4 => ~ret.val.matched

\* both bytes of the identifier and of the sequence are significant
C19_Witness ==
    /\ call.fn = "Marshal;matched" /\ ret.done
    /\ call.arg = [ID |-> pid, Seq |-> 65280, n |-> 16]
    /\ ret.val.matched

\* C20: the echo request built for payload size L has a payload of L bytes
\* whose byte i (from 0) is the character i mod 36 of the digits followed
\* by the lower-case letters, whatever the identifier and the sequence.
C20_EchoPayloadPattern ==
    (call.fn = "createICMPMessage" /\ ret.done /\ call.arg.reqType = ICMPTypeEcho) =>
        LET data == ret.val.Body.Data
            char(j) == IF j < 10 THEN 48 + j ELSE 97 + (j - 10)
        IN  /\ ret.val.ok
            /\ Len(data) = call.arg.payloadSize
            /\ \A i \in 0..(call.arg.payloadSize - 1) : data[i + 1] = char(i % 36)

\* a payload of 72 bytes is the pattern twice
C20_Witness ==
    /\ call.fn = "createICMPMessage" /\ ret.done
    /\ call.arg.payloadSize = 72 /\ call.arg.id = 0 /\ call.arg.seq = 2
    /\ Len(ret.val.Body.Data) = 72
    /\ SubSeq(ret.val.Body.Data, 1, 36) = SubSeq(ret.val.Body.Data, 37, 72)
    /\ ret.val.Body.Data[1] = 48 /\ ret.val.Body.Data[72] = 122


\* C21: an echo message with a payload of n bytes that is encoded and then
\* read and decoded as the receive loop does yields an echo body with the
\* same identifier, the same sequence and the same n payload bytes.
C21_EchoRoundTrip ==
    (call.fn = "echo round trip" /\ ret.done) =>
        /\ ret.val.m.ok /\ ret.val.m.Body = "Echo"
        /\ ret.val.m.ID = call.arg.id
        /\ ret.val.m.Seq = call.arg.seq
        /\ Len(ret.val.m.Data) = call.arg.payloadSize
        /\ ret.val.m.Data = ret.val.msg.Body.Data


\* C22: createICMPMessage fails exactly for the request types other than
\* echo and timestamp; the message it returns has the requested type, code
\* 0 and a body with the given identifier and sequence: an Echo body for
\* echo, an icmpTimestamp body whose three times are 0 for timestamp.
C22_CreateICMPMessage ==
    (call.fn = "createICMPMessage" /\ ret.done) =>
        LET a == call.arg
            msg == ret.val
        IN  /\ msg.ok <=> a.reqType \in {8, 13}
            /\ msg.ok =>
                 /\ msg.Type = a.reqType /\ msg.Code = 0
                 /\ msg.Body.ID = a.id /\ msg.Body.Seq = a.seq
                 /\ a.reqType = 8 => msg.Body.Kind = "Echo"
                 /\ a.reqType = 13 =>
                      /\ msg.Body.Kind = "icmpTimestamp"
                      /\ msg.Body.OriginateTime = 0
                      /\ msg.Body.ReceiveTime = 0
                      /\ msg.Body.TransmitTime = 0

\* a timestamp request was built
C22_Witness ==
    /\ call.fn = "createICMPMessage" /\ ret.done
    /\ call.arg.reqType = ICMPTypeTimestamp /\ call.arg.id = pid /\ call.arg.seq = 2
    /\ ret.val.ok /\ ret.val.Body.Kind = "icmpTimestamp"


\* C23: a datagram read in the receive loop that is not an ICMP message, or
\* whose body has no identifier and sequence or has others than the
\* probe's, does not end the probe and leaves its result record, its
\* session and its request count as they were.
C23_NoiseIsDiscarded ==
    [][\A i \in Idx :
         LET d == lastRead'.d
             undecodable == ~ParseMessage(d).ok
             foreign == \/ ~d.body
                        \/ d.typ = ICMPTypeDestinationUnreachable
                        \/ d.id # test[i].ID
                        \/ d.seq # test[i].Seq
         IN  (/\ pc[i] = "recv" /\ lastRead'.probe = i /\ lastRead'.err = ""
              /\ (undecodable \/ foreign))
             => /\ pc'[i] = "recv"
                /\ result'[i] = result[i]
                /\ conn'[i] = conn[i]
                /\ sent'[i] = sent[i]]_vars

\* a waiting probe has just read a datagram too short to be an ICMP message
C23_Witness ==
    \E i \in Idx :
        /\ pc[i] = "recv" /\ lastRead = ReadOf(i, Garbage, "")
        /\ result[i] = newResult(test[i])


\* C24: a probe whose DF option was requested and could not be set is not
\* failed for it: the setup goes on to ToS and control messages with the
\* result record untouched, the probe sends its request, and it ends with
\* one of the outcomes of a probe whose DF option is set.
C24_DFFailureIsNotAnError ==
    /\ [][\A i \in Idx :
            (pc[i] = "open" /\ df'[i] = "failed" /\ fatal'.probe # i)
               => /\ pc'[i] = "send" /\ conn'[i] = "open"
                  /\ result'[i] = result[i]
                  /\ exited' = exited]_vars
    /\ [](\A i \in Idx :
            /\ fatal.probe = i
                 => fatal.msg \in {"ListenIP failed", "SetTOS failed",
                                   "SetControlMessage failed"}
            /\ (df[i] = "failed" /\ pc[i] \in {"store", "done", "release", "end"})
                 => \/ result[i].Status = "PASSED"
                    \/ /\ result[i].Status = "FAILED"
                       /\ result[i].Details \in
                            {"ResolveIPAddr error", "createICMPMessage error",
                             "WriteTo error", "sent fewer bytes", "SetReadDeadline error",
                             "ReadFrom error", "expected response, but timed out",
                             "received response, but expected timeout",
                             "received unexpected ICMP type"})

\* a probe whose DF option could not be set has sent its request, read its
\* reply and passed
C24_Witness ==
    \E i \in Idx :
        /\ general.SetDFBit /\ df[i] = "failed"
        /\ sent[i] = 1 /\ pc[i] = "end"
        /\ results[i].Status = "PASSED" /\ results[i].ActualResult = "echo reply"


\* C25: a timeout is accepted exactly when it lies between 1ms and 10s
\* inclusive: a parsed timeout outside that range, a positive one below 1ms
\* included, gives a FAILED result with an "invalid timeout" detail without
\* the probe being run; a timeout inside it is never rejected as a timeout;
\* and an absent timeout is 1s.
C25_TimeoutRange ==
    \A i \in Idx :
        LET ti == tests[i]
            inRange == ti.Timeout.us >= 1000 /\ ti.Timeout.us <= 10 * 1000000
            ended == pc[i] \in {"done", "release", "end"}
        IN  /\ (ti.ExpectedResult \in {"response", "timeout"}
                  /\ ti.Timeout.present /\ ti.Timeout.parses /\ ~inRange)
                 => /\ test[i] = NoTest /\ conn[i] = "none"
                    /\ ended => /\ results[i].Status = "FAILED"
                                /\ results[i].Details
                                     = "invalid timeout: must be between 1ms and 10s"
            /\ (ti.Timeout.present /\ ti.Timeout.parses /\ inRange /\ ended)
                 => results[i].Details
                      \notin {"invalid timeout: must be between 1ms and 10s",
                              "invalid timeout: parse error"}
            /\ (~ti.Timeout.present /\ test[i] # NoTest) => test[i].Timeout = 1000000


\* C26: a configured payload size below 0 or above 65507 gives a FAILED
\* result without the probe being run, with an "invalid payload_size"
\* detail when the fields checked before it are valid; a configured size
\* from 0 to 65507 is the payload size of the probe; and an absent payload
\* size is 32 bytes.
C26_PayloadRange ==
    \A i \in Idx :
        LET ti == tests[i]
            size == ti.PayloadSize.val
            inRange == size >= 0 /\ size <= 65507
            othersOk == /\ ti.ExpectedResult \in {"response", "timeout"}
                        /\ ti.RequestType \in {"echo", "timestamp"}
                        /\ \/ ~ti.Timeout.present
                           \/ /\ ti.Timeout.parses
                              /\ ti.Timeout.us > 0 /\ ti.Timeout.us <= 10 * 1000000
            ended == pc[i] \in {"done", "release", "end"}
            validated == pc[i] \notin {"idle", "validate"}
        IN  /\ (ti.PayloadSize.present /\ ~inRange)
                 => /\ test[i] = NoTest /\ conn[i] = "none" /\ sent[i] = 0
                    /\ ended => /\ results[i].Status = "FAILED"
                                /\ othersOk => results[i].Details = "invalid payload_size"
            /\ (ti.PayloadSize.present /\ inRange /\ othersOk /\ validated)
                 => (test[i] # NoTest /\ test[i].PayloadSize = size)
            /\ (~ti.PayloadSize.present /\ test[i] # NoTest) => test[i].PayloadSize = 32

\* a probe with the largest payload size has sent its request
C26_Witness ==
    \E i \in Idx :
        /\ tests[i].PayloadSize = PayloadInput(TRUE, 65507)
        /\ test[i] # NoTest /\ test[i].PayloadSize = 65507
        /\ sent[i] = 1 /\ pc[i] = "recv"


\* C27: the parallelism loadConfig returns is 1 when the configured value
\* is absent, zero or negative and the configured value otherwise, so it is
\* at least 1 and the semaphore of main has room for the first permit.
C27_ParallelismAtLeastOne ==
    (call.fn = "loadConfig" /\ ret.done /\ ret.val.ok) =>
        LET p == call.arg.Parallelism
        IN  /\ ret.val.General.Parallelism
                 = (IF ~p.present \/ p.val <= 0 THEN 1 ELSE p.val)
            /\ general.Parallelism = ret.val.General.Parallelism
            /\ general.Parallelism >= 1
            /\ sem = 0 /\ sem < general.Parallelism

\* a configured parallelism of 0 was replaced by 1
C27_Witness ==
    /\ call.fn = "loadConfig" /\ ret.done /\ ret.val.ok
    /\ call.arg.Parallelism = Given(0)
    /\ general.Parallelism = 1


\* C28: for an input that fails for no other reason, loadConfig accepts a
\* ToS string that denotes, in decimal or in hex, a value from 0 to 255 and
\* stores that value; it rejects every other ToS string with an "invalid
\* TOS value" error; and an absent ToS is 0.
C28_TOSRange ==
    (/\ call.fn = "loadConfig" /\ ret.done
     /\ (call.arg.Output.present => call.arg.Output.val \in {"text", "json"})
     /\ call.arg.NumTests > 0) =>
        LET t == call.arg.TOS
            inRange == t.parses /\ t.val >= 0 /\ t.val <= 255
        IN  /\ ~t.present => (ret.val.ok /\ ret.val.General.TOS = 0)
            /\ (t.present /\ inRange) => (ret.val.ok /\ ret.val.General.TOS = t.val)
            /\ (t.present /\ ~inRange)
                 => (~ret.val.ok /\ ret.val.err = "invalid TOS value")


\* C29 as stated: in every stored result the observed label is "timeout"
\* or the textual ICMP type of a datagram that reached the probe, whichever
\* path produced the result.
C29_LabelIsTimeoutOrType ==
    \A i \in Idx :
        results[i] # ZeroResult =>
            \/ results[i].ActualResult = "timeout"
            \/ \E d \in traffic :
                 ParseMessage(d).ok /\ results[i].ActualResult = ICMPTypeString(d.typ)

\* C29, amended: the observed label of a stored result is "N/A" exactly
\* when the test failed its validation; otherwise it is the label of the
\* probe's record, which is empty until a read sets it, is set to "timeout"
\* only by the expiry of the deadline and to the textual ICMP type only of
\* a datagram just read that carries the probe's identifier and sequence,
\* and is still empty only in a result FAILED by a resolution, encoding,
\* send or receive error.
C29_LabelByPath ==
    /\ [](\A i \in Idx :
            results[i] # ZeroResult =>
                /\ results[i].ActualResult = "N/A" <=> test[i] = NoTest
                /\ test[i] # NoTest => results[i] = result[i]
                /\ results[i].ActualResult = ""
                     => /\ results[i].Status = "FAILED"
                        /\ results[i].Details \in
                             {"ResolveIPAddr error", "createICMPMessage error",
                              "WriteTo error", "sent fewer bytes",
                              "SetReadDeadline error", "ReadFrom error"})
    /\ [][\A i \in Idx :
            result'[i].ActualResult # result[i].ActualResult
               => /\ pc[i] = "recv" /\ lastRead'.probe = i
                  /\ \/ /\ lastRead'.err = "timeout"
                        /\ result'[i].ActualResult = "timeout"
                     \/ /\ lastRead'.err = ""
                        /\ ParseMessage(lastRead'.d).ok
                        /\ lastRead'.d.id = test[i].ID /\ lastRead'.d.seq = test[i].Seq
                        /\ result'[i].ActualResult = ICMPTypeString(lastRead'.d.typ)]_vars

\* the stored result of a probe whose send failed has an empty label
C29_Witness ==
    \E i \in Idx :
        /\ pc[i] = "end" /\ sent[i] = 1
        /\ results[i].Details = "WriteTo error"
        /\ results[i].ActualResult = ""


\* C30: the read deadline of a probe is set once, when the request has
\* been sent and the probe enters the receive loop, and no iteration of the
\* loop sets it again; with every read returning at its deadline at the
\* latest, a probe in the receive loop leaves it with a result.
C30_DeadlineFixedAndReached ==
    /\ [][\A i \in Idx :
            deadline'[i] # deadline[i]
               => /\ pc[i] = "send" /\ pc'[i] = "recv"
                  /\ deadline[i] = 0 /\ deadline'[i] = 1
                  /\ sent'[i] = 1]_vars
    /\ [](\A i \in Idx : pc[i] = "recv" => deadline[i] = 1)
    /\ \A i \in 1..MaxTests :
         (i \in Idx /\ pc[i] = "recv")
            ~> (i \in Idx /\ pc[i] = "store"
                  /\ result[i].Status \in {"PASSED", "FAILED"})

\* a probe has discarded a foreign datagram and is still in the loop, on
\* the deadline set once
C30_Witness ==
    \E i \in Idx :
        /\ pc[i] = "recv" /\ deadline[i] = 1
        /\ lastRead.probe = i /\ lastRead.err = "" /\ lastRead.d.id = foreignID

\* C31: the number of open raw sockets never exceeds the configured
\* parallelism: a socket is open only in a unit that holds a permit, it is
\* opened by a unit that holds one, and it is no longer open when the unit
\* releases its permit.
C31_OpenSocketsWithinParallelism ==
    /\ [](Cardinality({i \in Idx : conn[i] = "open"}) <= general.Parallelism)
    /\ [](\A i \in Idx : conn[i] = "open" => pc[i] \in {"open", "send", "recv"})
    /\ [][\A i \in Idx :
            /\ (conn'[i] = "open" /\ conn[i] # "open")
                 => (sem >= 1 /\ pc[i] \notin {"idle", "end"})
            /\ (pc[i] = "release" /\ pc'[i] = "end")
                 => (sem' = sem - 1 /\ conn[i] # "open")]_vars

\* every permit is taken by a unit whose socket is open while the launcher
\* still has a test to launch
C31_Witness ==
    /\ Cardinality({i \in Idx : conn[i] = "open"}) = general.Parallelism
    /\ \A i \in Idx : conn[i] = "open" => pc[i] = "recv"
    /\ mainpc = "launch" /\ launched < N /\ running

\* C32: for the probe at the 0-based position i of the configured list, the
\* sequence written in its request is its assigned sequence i + 1, the
\* probe at another position writes another sequence, and the reply that
\* carries the identifier and the sequence of the request is matched by
\* the probe.
C32_WireSequence ==
    (call.fn = "wire sequence" /\ ret.done) =>
        /\ ret.val.Seq = call.arg.i + 1
        /\ ret.val.wireSeq = ret.val.Seq
        /\ ret.val.wireSeq # ret.val.otherWireSeq
        /\ ret.val.matched

\* C33: for a probe that expects a timeout the self-noise exemption is not
\* applied: every datagram read that carries the probe's (ID, Seq) ends the
\* probe FAILED with "received response, but expected timeout", whatever
\* its type and the destination, the probe's own request looped back from
\* a loopback or own-source destination included.
C33_TimeoutExpectedHasNoSelfNoise ==
    [][\A i \in Idx :
         (/\ pc[i] = "recv" /\ test[i].ExpectedResult = "timeout"
          /\ lastRead' # lastRead /\ lastRead'.probe = i /\ lastRead'.err = ""
          /\ lastRead'.d.hdr /\ lastRead'.d.body
          /\ lastRead'.d.typ # ICMPTypeDestinationUnreachable
          /\ lastRead'.d.id = test[i].ID /\ lastRead'.d.seq = test[i].Seq)
         => /\ pc'[i] = "store"
            /\ result'[i].Status = "FAILED"
            /\ result'[i].Details = "received response, but expected timeout"]_vars

\* a probe to its own host that expects a timeout has ended FAILED on its
\* own request looped back, no reply having been read
C33_Witness ==
    \E i \in Idx :
        /\ pc[i] = "store" /\ test[i].ExpectedResult = "timeout"
        /\ isSelf(test[i])
        /\ lastRead.probe = i /\ lastRead.d.typ = test[i].RequestType
        /\ lastRead.d.id = test[i].ID /\ lastRead.d.seq = test[i].Seq
        /\ result[i].Status = "FAILED"
        /\ result[i].Details = "received response, but expected timeout"

\* C34: the loopback and self-address cases are decided from the address
\* the request is sent to: for a probe whose destination is a host name
\* that resolves to a loopback address, the expected reply type and the
\* outcome of every datagram read (return or continue, and the result) are
\* those of the probe given the literal address the name resolves to.
C34_HostNameTreatedAsItsAddress ==
    /\ [](\A i \in Idx :
            pc[i] \in {"send", "recv"} =>
                getICMPResponseType(test[i])
                    = getICMPResponseType([test[i] EXCEPT
                                              !.Destination = ResolveIPAddr(@)]))
    /\ [][\A i \in Idx :
            (/\ pc[i] = "recv" /\ lastRead' # lastRead
             /\ lastRead'.probe = i /\ lastRead'.err = "")
            => LET o == onDatagram([test[i] EXCEPT !.Destination = ResolveIPAddr(@)],
                                   result[i], lastRead'.d)
               IN  /\ (pc'[i] = "store") = o.ret
                   /\ result'[i] = o.res]_vars

\* C35: for a timestamp probe the configured payload size has no effect:
\* whatever its value, the probe is validated as the same probe without a
\* payload size is, the request it sends is the 4 header bytes and the 16
\* bytes of the timestamp body, the same for every size, and a validation
\* failure it stores is the one stored without a payload size.
C35_PayloadSizeIgnoredForTimestamp ==
    \A i \in Idx :
        (tests[i].RequestType = "timestamp" /\ pc[i] \notin {"idle", "validate"}) =>
            LET v0 == validateTest([tests[i] EXCEPT !.PayloadSize = NoPayload], i)
                sentBytes(t) ==
                    messageMarshal(createICMPMessage(t.RequestType, t.ID, t.Seq,
                                                     t.PayloadSize))
            IN  /\ v0.ok <=> test[i] # NoTest
                /\ v0.ok =>
                     /\ Len(sentBytes(test[i])) = 20
                     /\ sentBytes(test[i]) = sentBytes(v0.test)
                /\ ~v0.ok => results[i] = v0.res

\* C36: with parallelism 1 the probes run one after another in the order
\* of the configuration: the unit of probe i + 1 has taken no step, and has
\* not even been started, unless the result of probe i is stored and its
\* unit has ended; so at most one unit is between its start and its end,
\* and at most one request is awaiting its reply.
C36_SequentialWhenParallelismOne ==
    general.Parallelism = 1 =>
        /\ \A i \in Idx :
              (i + 1 \in Idx /\ pc[i + 1] # "idle") =>
                  /\ results[i] # ZeroResult /\ results[i].Name = i
                  /\ pc[i] = "end"
        /\ \A i \in Idx : pc[i] = "idle" => (sent[i] = 0 /\ conn[i] = "none")
        /\ Cardinality({i \in Idx : pc[i] = "recv"}) <= 1

\* with parallelism 1 the second probe awaits its reply after the first
\* one has sent its request and stored its result
C36_Witness ==
    /\ general.Parallelism = 1 /\ N >= 2
    /\ sent[1] = 1 /\ results[1].Status = "PASSED" /\ pc[1] = "end"
    /\ pc[2] = "recv" /\ sent[2] = 1

\* C37: with only a source IP address configured,
\* determineNetworkInterfaceAndIPAddress returns an interface that owns
\* that IPv4 address, with the address, whenever an interface of the
\* system's list owns it, wherever it stands in the list; and it reports
\* "No network interface found" only when no interface owns the address.
C37_InterfaceOfSourceIP ==
    (call.fn = "determineNetworkInterfaceAndIPAddress" /\ ret.done
        /\ ParseIP(call.arg.source) # "") =>
        LET ifaces == call.arg.ifaces
            owns(iface) == \E k \in 1..Len(iface.Addrs) :
                              iface.Addrs[k].v4 /\ iface.Addrs[k].ip = call.arg.source
            owners == {ifaces[n].Name : n \in {m \in 1..Len(ifaces) : owns(ifaces[m])}}
        IN  /\ owners # {} =>
                 /\ ret.val.ok /\ ret.val.Interface \in owners
                 /\ ret.val.IP = call.arg.source
                 /\ exited = -1
            /\ (~ret.val.ok /\ ret.val.msg = "No network interface found with IP address")
                 => owners = {}

\* C38: a datagram that carries the probe's (ID, Seq) and is discarded as
\* self-noise, the loop continuing, leaves the result record of the probe
\* as it was; hence a probe that ends on a receive error that is not the
\* deadline has the empty observed-outcome label.
C38_SelfNoiseLeavesResult ==
    /\ [][\A i \in Idx :
            (/\ pc[i] = "recv" /\ pc'[i] = "recv"
             /\ lastRead'.probe = i /\ lastRead'.err = ""
             /\ ParseMessage(lastRead'.d).ok
             /\ matched(ParseMessage(lastRead'.d), test[i]))
            => result'[i] = result[i]]_vars
    /\ [](\A i \in Idx :
            (pc[i] = "store" /\ lastRead.probe = i /\ lastRead.err = "error")
                => result[i].ActualResult = "")

\* C39: icmpTypeToString maps echo, echo reply, timestamp and timestamp
\* reply to their descriptive labels, and every other ICMP type of numeric
\* value N to the string "type N" (type 99 gives "type 99").
C39_IcmpTypeToString ==
    (call.fn = "icmpTypeToString" /\ ret.done) =>
        CASE call.arg = 8 -> ret.val \in {"echo", "echo request"}
          [] call.arg = 0 -> ret.val = "echo reply"
          [] call.arg = 13 -> ret.val = "timestamp"
          [] call.arg = 14 -> ret.val = "timestamp reply"
          [] OTHER -> ret.val = "type " \o ToString(call.arg)

====
